---- MODULE Spec2Model ----
(***************************************************************************)
(* A model of the CSV ingestion and allocation engine of turo_claude:      *)
(* src/lib/csv.ts (header resolution, field parsers, owner inference, row  *)
(* validation, line-item allocation, owner backfill), src/lib/feeSettings  *)
(* (the caller-side allocation policy) and src/lib/metrics.ts (the         *)
(* dashboard aggregation).                                                 *)
(*                                                                         *)
(* Text is modelled as TLA+ strings read one character at a time with      *)
(* SubSeq, so the parsers are computed the way the code computes them.     *)
(* Money is an integer number of cents.  A value that may be absent        *)
(* (undefined / null in the code) is a sequence of length 0 or 1:          *)
(* <<>> is null, <<v>> is the value v.                                     *)
(***************************************************************************)
EXTENDS Integers, Sequences, FiniteSets, TLC

VARIABLES
    \* parseTuroCsv, as handleFile calls it
    pc,          \* "idle", "rows" (inside the forEach), "done" (returned) or "failed" (threw)
    metaFields,  \* parsed.meta.fields: the header row of the file
    columnMap,   \* map: the ColumnMap buildColumnMap returned
    parsedData,  \* parsed.data, as far as the forEach has got
    recordList,  \* records; once done, the records returned
    warnings,    \* warnings; once done, the warnings returned
    error,       \* the message of the error thrown, if any
    feeSettings, \* the overrides of the caller's fee settings
    policyArg,   \* the policy handleFile passed: toSplitRatios(feeSettings)
    dashboard,   \* what buildDashboardData made of the records shown
    linesRead,   \* the lines of the file read so far, the header row included
    sourceLines, \* for each row of parsedData, the line of the file it is
    \* the pure functions, each applied to one input
    moneyIn,     \* the cell handed to parseMoneyCents
    moneyOut,    \* what parseMoneyCents returned for it
    settingsIn,  \* the overrides handed to toSplitRatios
    policyOut,   \* the policy toSplitRatios returned for them
    rowFields,   \* a header row
    rowIn,       \* a data row under it
    rowOut,      \* what parseRow returned for that row
    aggIn,       \* the records handed to buildDashboardData
    aggOut,      \* the dashboard data it returned for them
    batchIn,     \* the records handed to backfillOwnersFromKnownVehicles
    batchOut,    \* the records it returned for them
    \* the application around handleFile
    appRecords,  \* records: the state set by setRecords
    appWarnings, \* warnings: the state set by setWarnings
    lastFileName, \* the state set by setLastFileName
    isLoading,   \* the state set by setIsLoading
    appError,    \* the state set by setError
    info,        \* the state set by setInfo
    calls,       \* the handleFile calls made so far: the file and how far each has got
    \* the tables of one user and the saveUploadToSupabase calls
    uploadsTable, \* the ids of the rows of the uploads table
    tripsTable,  \* the rows of the trips table, at most one for a trip fingerprint
    saves        \* the saveUploadToSupabase calls made so far

vars == <<pc, metaFields, columnMap, parsedData, recordList, warnings, error,
          feeSettings, policyArg, dashboard, linesRead, sourceLines,
          moneyIn, moneyOut, settingsIn, policyOut, rowFields, rowIn, rowOut,
          aggIn, aggOut, batchIn, batchOut,
          appRecords, appWarnings, lastFileName, isLoading, appError, info, calls,
          uploadsTable, tripsTable, saves>>

(***************************************************************************)
(* Bounds of the model.                                                    *)
(***************************************************************************)
MaxCellLen == 4     \* the longest enumerated money cell, in characters
MaxRows == 3        \* the most data rows of a file
MaxBlankLines == 1  \* the most empty lines of a file

(***************************************************************************)
(* Characters and strings.                                                 *)
(***************************************************************************)
NULL == <<>>
Some(v) == <<v>>

Ch(s, i) == SubSeq(s, i, i)

Digits == {"0", "1", "2", "3", "4", "5", "6", "7", "8", "9"}
Whitespace == {" ", "\t"}

DigitValue(c) ==
    CASE c = "0" -> 0 [] c = "1" -> 1 [] c = "2" -> 2 [] c = "3" -> 3 [] c = "4" -> 4
      [] c = "5" -> 5 [] c = "6" -> 6 [] c = "7" -> 7 [] c = "8" -> 8 [] c = "9" -> 9

RECURSIVE Pow10(_)
Pow10(k) == IF k = 0 THEN 1 ELSE 10 * Pow10(k - 1)

\* String.prototype.trim
RECURSIVE TrimLeft(_)
TrimLeft(s) == IF Len(s) > 0 /\ Ch(s, 1) \in Whitespace THEN TrimLeft(Tail(s)) ELSE s

RECURSIVE TrimRight(_)
TrimRight(s) ==
    IF Len(s) > 0 /\ Ch(s, Len(s)) \in Whitespace
        THEN TrimRight(SubSeq(s, 1, Len(s) - 1))
        ELSE s

Trim(s) == TrimRight(TrimLeft(s))

\* s.replace(/[...]/g, ''): drop every character of s that lies in the class cs
RECURSIVE RemoveChars(_, _)
RemoveChars(s, cs) ==
    IF Len(s) = 0 THEN ""
    ELSE IF Ch(s, 1) \in cs THEN RemoveChars(Tail(s), cs)
    ELSE Ch(s, 1) \o RemoveChars(Tail(s), cs)

\* /^\d+$/ : one or more digits and nothing else
RECURSIVE AllDigits(_)
AllDigits(s) ==
    /\ Len(s) > 0
    /\ Ch(s, 1) \in Digits
    /\ (Len(s) = 1 \/ AllDigits(Tail(s)))

\* the value of a string of digits
RECURSIVE DigitsValue(_)
DigitsValue(s) ==
    IF Len(s) = 0 THEN 0
    ELSE 10 * DigitsValue(SubSeq(s, 1, Len(s) - 1)) + DigitValue(Ch(s, Len(s)))

\* s.indexOf(c) for a single character c, 1-based; 0 when c does not occur
RECURSIVE IndexOfChar(_, _)
IndexOfChar(s, c) ==
    IF Len(s) = 0 THEN 0
    ELSE IF Ch(s, 1) = c THEN 1
    ELSE LET r == IndexOfChar(Tail(s), c) IN IF r = 0 THEN 0 ELSE r + 1

(***************************************************************************)
(* Field parsers: money.                                                   *)
(***************************************************************************)

\* a variant without the second replace: parentheses are left in place
MoneyCleanedNoParens(value) == RemoveChars(Trim(value), {"$", ","} \cup Whitespace)

\* value.trim().replace(/[$,\s]/g, '').replace(/^\((.*)\)$/, '-$1')
MoneyCleaned(value) ==
    LET stripped == RemoveChars(Trim(value), {"$", ","} \cup Whitespace)
    IN  IF Len(stripped) >= 2 /\ Ch(stripped, 1) = "(" /\ Ch(stripped, Len(stripped)) = ")"
            THEN "-" \o SubSeq(stripped, 2, Len(stripped) - 1)
            ELSE stripped

\* /^-?\d+(\.\d+)?$/.test(cleaned)
MoneyPattern(cleaned) ==
    LET body == IF Len(cleaned) > 0 /\ Ch(cleaned, 1) = "-" THEN Tail(cleaned) ELSE cleaned
        dot  == IndexOfChar(body, ".")
    IN  IF dot = 0
            THEN AllDigits(body)
            ELSE /\ AllDigits(SubSeq(body, 1, dot - 1))
                 /\ AllDigits(SubSeq(body, dot + 1, Len(body)))

\* Math.round(Number(cleaned) * 100) for a cleaned string that matches the
\* pattern.  The number is sign * n / 10^k, with n the digits read without
\* the point and k the count of fraction digits; Math.round rounds to the
\* nearest integer, a tie going up (towards +infinity).
RoundTimes100(cleaned) ==
    LET neg  == Ch(cleaned, 1) = "-"
        body == IF neg THEN Tail(cleaned) ELSE cleaned
        dot  == IndexOfChar(body, ".")
        ip   == IF dot = 0 THEN body ELSE SubSeq(body, 1, dot - 1)
        fp   == IF dot = 0 THEN "" ELSE SubSeq(body, dot + 1, Len(body))
        k    == Len(fp)
        n    == DigitsValue(ip \o fp)
        num  == (IF neg THEN 0 - n ELSE n) * 100
        den  == Pow10(k)
    IN  (2 * num + den) \div (2 * den)

parseMoneyCents(value) ==
    IF value = NULL \/ value = Some("") THEN NULL
    ELSE LET cleaned == MoneyCleaned(value[1])
         IN  IF cleaned = "" \/ cleaned = "-" THEN NULL
             ELSE IF ~MoneyPattern(cleaned) THEN NULL
             ELSE Some(RoundTimes100(cleaned))

(***************************************************************************)
(* More string helpers.                                                    *)
(***************************************************************************)
LowerLetters ==
    {"a", "b", "c", "d", "e", "f", "g", "h", "i", "j", "k", "l", "m",
     "n", "o", "p", "q", "r", "s", "t", "u", "v", "w", "x", "y", "z"}
UpperLetters ==
    {"A", "B", "C", "D", "E", "F", "G", "H", "I", "J", "K", "L", "M",
     "N", "O", "P", "Q", "R", "S", "T", "U", "V", "W", "X", "Y", "Z"}

IsLowerLetter(c) == c \in LowerLetters
IsUpperLetter(c) == c \in UpperLetters

LowerOf ==
    ("A" :> "a") @@ ("B" :> "b") @@ ("C" :> "c") @@ ("D" :> "d") @@ ("E" :> "e") @@
    ("F" :> "f") @@ ("G" :> "g") @@ ("H" :> "h") @@ ("I" :> "i") @@ ("J" :> "j") @@
    ("K" :> "k") @@ ("L" :> "l") @@ ("M" :> "m") @@ ("N" :> "n") @@ ("O" :> "o") @@
    ("P" :> "p") @@ ("Q" :> "q") @@ ("R" :> "r") @@ ("S" :> "s") @@ ("T" :> "t") @@
    ("U" :> "u") @@ ("V" :> "v") @@ ("W" :> "w") @@ ("X" :> "x") @@ ("Y" :> "y") @@
    ("Z" :> "z")

\* one character of String.prototype.toLowerCase
LowerChar(c) == IF c \in UpperLetters THEN LowerOf[c] ELSE c

RECURSIVE ToLowerCase(_)
ToLowerCase(s) == IF Len(s) = 0 THEN "" ELSE LowerChar(Ch(s, 1)) \o ToLowerCase(Tail(s))

\* s.toLowerCase().replace(/[^a-z0-9]/g, '')
RECURSIVE LowerAlnum(_)
LowerAlnum(s) ==
    IF Len(s) = 0 THEN ""
    ELSE LET c == LowerChar(Ch(s, 1))
         IN  IF IsLowerLetter(c) \/ c \in Digits
                 THEN c \o LowerAlnum(Tail(s))
                 ELSE LowerAlnum(Tail(s))

\* parts.join(sep) for a sequence of strings
RECURSIVE Join(_, _)
Join(parts, sep) ==
    IF Len(parts) = 0 THEN ""
    ELSE IF Len(parts) = 1 THEN parts[1]
    ELSE parts[1] \o sep \o Join(Tail(parts), sep)

\* array.filter(Boolean) on a sequence of strings: the empty string is falsy
RECURSIVE FilterNonEmpty(_)
FilterNonEmpty(parts) ==
    IF Len(parts) = 0 THEN <<>>
    ELSE IF parts[1] = "" THEN FilterNonEmpty(Tail(parts))
    ELSE <<parts[1]>> \o FilterNonEmpty(Tail(parts))

(***************************************************************************)
(* Allocation policy.                                                      *)
(***************************************************************************)

\* Object.keys(splitRatios), in declaration order
SplitItems ==
    << "Trip price", "Boost price", "3-day discount", "1-week discount",
       "2-week discount", "3-week discount", "1-month discount", "2-month discount",
       "3-month discount", "Non-refundable discount", "Early bird discount",
       "Host promotional credit", "Cancellation fee", "Additional usage",
       "Excess distance", "Smoking", "Delivery", "Extras", "Gas reimbursement",
       "Cleaning", "Late fee", "Improper return fee", "Airport operations fee",
       "Airport parking credit", "On-trip EV charging", "Post-trip EV charging",
       "Tolls & tickets", "Fines (paid to host)", "Other fees", "Gas fee", "Sales tax" >>

SplitItemSet == {SplitItems[i] : i \in 1..Len(SplitItems)}

Ratio(lr, owner) == [lrBps |-> lr, ownerBps |-> owner]

splitRatios ==
    ("Trip price" :> Ratio(3000, 7000)) @@
    ("Boost price" :> Ratio(3000, 7000)) @@
    ("3-day discount" :> Ratio(3000, 7000)) @@
    ("1-week discount" :> Ratio(3000, 7000)) @@
    ("2-week discount" :> Ratio(3000, 7000)) @@
    ("3-week discount" :> Ratio(3000, 7000)) @@
    ("1-month discount" :> Ratio(3000, 7000)) @@
    ("2-month discount" :> Ratio(3000, 7000)) @@
    ("3-month discount" :> Ratio(3000, 7000)) @@
    ("Non-refundable discount" :> Ratio(3000, 7000)) @@
    ("Early bird discount" :> Ratio(3000, 7000)) @@
    ("Host promotional credit" :> Ratio(3000, 7000)) @@
    ("Cancellation fee" :> Ratio(3000, 7000)) @@
    ("Additional usage" :> Ratio(3000, 7000)) @@
    ("Excess distance" :> Ratio(0, 10000)) @@
    ("Smoking" :> Ratio(9000, 1000)) @@
    ("Delivery" :> Ratio(9000, 1000)) @@
    ("Extras" :> Ratio(10000, 0)) @@
    ("Gas reimbursement" :> Ratio(10000, 0)) @@
    ("Cleaning" :> Ratio(10000, 0)) @@
    ("Late fee" :> Ratio(10000, 0)) @@
    ("Improper return fee" :> Ratio(10000, 0)) @@
    ("Airport operations fee" :> Ratio(10000, 0)) @@
    ("Airport parking credit" :> Ratio(10000, 0)) @@
    ("On-trip EV charging" :> Ratio(10000, 0)) @@
    ("Post-trip EV charging" :> Ratio(10000, 0)) @@
    ("Tolls & tickets" :> Ratio(10000, 0)) @@
    ("Fines (paid to host)" :> Ratio(0, 10000)) @@
    ("Other fees" :> Ratio(10000, 0)) @@
    ("Gas fee" :> Ratio(10000, 0)) @@
    ("Sales tax" :> Ratio(10000, 0))

\* feeSettings: the default owner percentage of each line item
DEFAULT_OWNER_PCT ==
    ("Trip price" :> 70) @@
    ("Boost price" :> 70) @@
    ("3-day discount" :> 70) @@
    ("1-week discount" :> 70) @@
    ("2-week discount" :> 70) @@
    ("3-week discount" :> 70) @@
    ("1-month discount" :> 70) @@
    ("2-month discount" :> 70) @@
    ("3-month discount" :> 70) @@
    ("Non-refundable discount" :> 70) @@
    ("Early bird discount" :> 70) @@
    ("Host promotional credit" :> 70) @@
    ("Cancellation fee" :> 70) @@
    ("Additional usage" :> 70) @@
    ("Excess distance" :> 100) @@
    ("Smoking" :> 10) @@
    ("Delivery" :> 10) @@
    ("Extras" :> 0) @@
    ("Gas reimbursement" :> 0) @@
    ("Cleaning" :> 0) @@
    ("Late fee" :> 0) @@
    ("Improper return fee" :> 0) @@
    ("Airport operations fee" :> 0) @@
    ("Airport parking credit" :> 0) @@
    ("On-trip EV charging" :> 0) @@
    ("Post-trip EV charging" :> 0) @@
    ("Tolls & tickets" :> 0) @@
    ("Fines (paid to host)" :> 100) @@
    ("Other fees" :> 0) @@
    ("Gas fee" :> 0) @@
    ("Sales tax" :> 0)

\* A FeeSettings value is modelled by its overrides: a function from some
\* line items to owner percentages.
NoOverrides == <<>>

\* settings.overrides[key] ?? DEFAULT_OWNER_PCT[key]
resolvedOwnerPct(settings, key) ==
    IF key \in DOMAIN settings THEN settings[key] ELSE DEFAULT_OWNER_PCT[key]

\* a variant that takes the complement of the percentage, not of the basis points
toSplitRatiosEntryPct(settings, key) ==
    LET ownerBps == resolvedOwnerPct(settings, key) * 100
    IN  [ownerBps |-> ownerBps, lrBps |-> 100 - resolvedOwnerPct(settings, key)]

\* ownerBps = Math.round(pct * 100) for an integer pct; lrBps = 10000 - ownerBps
toSplitRatiosEntry(settings, key) ==
    LET ownerBps == resolvedOwnerPct(settings, key) * 100
    IN  [ownerBps |-> ownerBps, lrBps |-> 10000 - ownerBps]

toSplitRatios(settings) ==
    [key \in DOMAIN DEFAULT_OWNER_PCT |-> toSplitRatiosEntry(settings, key)]

(***************************************************************************)
(* Header resolver.                                                        *)
(***************************************************************************)
aliases ==
    [ tripStart      |-> <<"tripstart", "startdate", "pickupdate", "tripstartdate", "reservationstart">>,
      tripEnd        |-> <<"tripend", "enddate", "dropoffdate", "tripenddate", "reservationend">>,
      grossRevenue   |-> <<"tripprice", "grossrevenue", "triptotal", "revenue", "gross">>,
      netEarnings    |-> <<"totalearnings", "netearnings", "hostearnings", "netpayout", "earnings">>,
      addonsRevenue  |-> <<"addonrevenue", "extras", "additionalincome", "addons">>,
      vehicleName    |-> <<"vehiclename", "car">>,
      vehicleRaw     |-> <<"vehicle", "listingtitle">>,
      ownerName      |-> <<"owner", "ownername", "vehicleowner", "carowner", "host", "hostname",
                           "hostfullname", "hostname", "primaryowner">>,
      ownerFirstName |-> <<"ownerfirstname", "hostfirstname", "firstname">>,
      ownerLastName  |-> <<"ownerlastname", "hostlastname", "lastname">>,
      status         |-> <<"tripstatus", "status", "reservationstatus">>,
      isCancelled    |-> <<"cancelled", "iscancelled", "canceled", "iscanceled">> ]

normalizeHeader(header) == LowerAlnum(header)

\* new Map(headers.map((h) => [normalizeHeader(h), h])).get(key): of the
\* headers that normalise to key, the Map keeps the last one
RECURSIVE NormalizedGet(_, _)
NormalizedGet(headers, key) ==
    IF Len(headers) = 0 THEN NULL
    ELSE LET last == headers[Len(headers)]
         IN  IF normalizeHeader(last) = key
                 THEN Some(last)
                 ELSE NormalizedGet(SubSeq(headers, 1, Len(headers) - 1), key)

\* a variant that binds the first header of the file, in column order, that
\* normalises to any of the matchers
RECURSIVE findColumnFirstHeader(_, _)
findColumnFirstHeader(headers, matchers) ==
    IF Len(headers) = 0 THEN NULL
    ELSE IF \E k \in 1..Len(matchers) : normalizeHeader(headers[1]) = matchers[k]
        THEN Some(headers[1])
        ELSE findColumnFirstHeader(Tail(headers), matchers)

\* the first matcher, in the order given, that a header normalises to; an
\* empty header is falsy and is passed over
RECURSIVE findColumn(_, _)
findColumn(headers, matchers) ==
    IF Len(matchers) = 0 THEN NULL
    ELSE LET found == NormalizedGet(headers, matchers[1])
         IN  IF found # NULL /\ found # Some("")
                 THEN found
                 ELSE findColumn(headers, Tail(matchers))

buildSplitItemColumns(headers) ==
    LET present == {item \in SplitItemSet : findColumn(headers, <<normalizeHeader(item)>>) # NULL}
    IN  [item \in present |-> findColumn(headers, <<normalizeHeader(item)>>)[1]]

\* a variant that reports the field names instead of the labels
MissingRequiredKeys(headers) ==
    FilterNonEmpty(<<
        IF findColumn(headers, aliases.tripStart) = NULL THEN "tripStart" ELSE "",
        IF findColumn(headers, aliases.tripEnd) = NULL THEN "tripEnd" ELSE "",
        IF findColumn(headers, aliases.grossRevenue) = NULL THEN "grossRevenue" ELSE "" >>)

\* the labels of the required columns that did not resolve, in the order
\* trip start, trip end, gross revenue
MissingRequired(headers) ==
    FilterNonEmpty(<<
        IF findColumn(headers, aliases.tripStart) = NULL THEN "Trip start date" ELSE "",
        IF findColumn(headers, aliases.tripEnd) = NULL THEN "Trip end date" ELSE "",
        IF findColumn(headers, aliases.grossRevenue) = NULL THEN "Gross revenue" ELSE "" >>)

\* buildColumnMap: either throws (threw, with the message) or returns the map
buildColumnMap(headers) ==
    IF MissingRequired(headers) # <<>>
        THEN [threw |-> TRUE,
              message |-> "Missing required column(s): " \o Join(MissingRequired(headers), ", ") \o "."]
        ELSE [threw |-> FALSE,
              tripStart        |-> findColumn(headers, aliases.tripStart)[1],
              tripEnd          |-> findColumn(headers, aliases.tripEnd)[1],
              grossRevenue     |-> findColumn(headers, aliases.grossRevenue)[1],
              netEarnings      |-> findColumn(headers, aliases.netEarnings),
              addonsRevenue    |-> findColumn(headers, aliases.addonsRevenue),
              vehicleName      |-> findColumn(headers, aliases.vehicleName),
              vehicleRaw       |-> findColumn(headers, aliases.vehicleRaw),
              ownerName        |-> findColumn(headers, aliases.ownerName),
              ownerFirstName   |-> findColumn(headers, aliases.ownerFirstName),
              ownerLastName    |-> findColumn(headers, aliases.ownerLastName),
              status           |-> findColumn(headers, aliases.status),
              isCancelled      |-> findColumn(headers, aliases.isCancelled),
              splitItemColumns |-> buildSplitItemColumns(headers)]

(***************************************************************************)
(* Field parsers: dates, booleans.                                         *)
(***************************************************************************)

\* raw[column]: the cell, or undefined when the row has no such field
Cell(raw, column) == IF column \in DOMAIN raw THEN Some(raw[column]) ELSE NULL

\* String(raw[column] ?? '') for an optional column; '' when it did not resolve
CellText(raw, column) ==
    IF column = NULL THEN ""
    ELSE IF Cell(raw, column[1]) = NULL THEN "" ELSE raw[column[1]]

\* What the platform's Date constructor makes of the date strings that occur
\* in the model's files; every other string, and undefined, is an Invalid
\* Date.  A date is its local calendar fields.
KnownDates ==
    ("2025-01-30 10:00 AM" :> [year |-> 2025, month |-> 1, day |-> 30, hour |-> 10]) @@
    ("2025-02-02 11:00 AM" :> [year |-> 2025, month |-> 2, day |-> 2, hour |-> 11]) @@
    ("2025-01-05 09:00 AM" :> [year |-> 2025, month |-> 1, day |-> 5, hour |-> 9]) @@
    ("2025-01-03 09:00 AM" :> [year |-> 2025, month |-> 1, day |-> 3, hour |-> 9])

parseDate(value) ==
    IF value # NULL /\ value[1] \in DOMAIN KnownDates THEN Some(KnownDates[value[1]]) ELSE NULL

parseMoney(value) == parseMoneyCents(value)

\* s.includes(t)
RECURSIVE Includes(_, _)
Includes(s, t) ==
    IF Len(s) < Len(t) THEN FALSE
    ELSE IF SubSeq(s, 1, Len(t)) = t THEN TRUE
    ELSE Includes(Tail(s), t)

\* a variant that never asks the status when the flag column is resolved
parseCancelledFlagOnly(raw, map) ==
    LET value  == ToLowerCase(CellText(raw, map.isCancelled))
        status == ToLowerCase(CellText(raw, map.status))
    IN  IF map.isCancelled # NULL THEN value \in {"true", "yes", "1"}
        ELSE Includes(status, "cancel")

parseCancelled(raw, map) ==
    LET value  == ToLowerCase(CellText(raw, map.isCancelled))
        status == ToLowerCase(CellText(raw, map.status))
    IN  IF map.isCancelled # NULL /\ value \in {"true", "yes", "1"} THEN TRUE
        ELSE IF map.isCancelled # NULL /\ value \in {"false", "no", "0"} THEN FALSE
        ELSE Includes(status, "cancel")

(***************************************************************************)
(* Owner identity resolver.                                                *)
(***************************************************************************)

\* s.indexOf(t), 1-based: the first position at which t occurs in s, 0 when
\* it does not occur (JavaScript's index is this position minus one)
RECURSIVE IndexOfFrom(_, _, _)
IndexOfFrom(s, t, i) ==
    IF i + Len(t) - 1 > Len(s) THEN 0
    ELSE IF SubSeq(s, i, i + Len(t) - 1) = t THEN i
    ELSE IndexOfFrom(s, t, i + 1)

IndexOf(s, t) == IndexOfFrom(s, t, 1)

EndsWith(s, t) == Len(s) >= Len(t) /\ SubSeq(s, Len(s) - Len(t) + 1, Len(s)) = t
StartsWith(s, t) == Len(s) >= Len(t) /\ SubSeq(s, 1, Len(t)) = t

\* s.replace(/[-|:,]+$/, '')
RECURSIVE StripTrailingSeparators(_)
StripTrailingSeparators(s) ==
    IF Len(s) > 0 /\ Ch(s, Len(s)) \in {"-", "|", ":", ","}
        THEN StripTrailingSeparators(SubSeq(s, 1, Len(s) - 1))
        ELSE s

\* null is NULL; the result may be the empty string (for the prefix "'s")
cleanOwnerPrefix(prefix) ==
    LET cleaned == Trim(StripTrailingSeparators(Trim(prefix)))
    IN  IF cleaned = "" THEN NULL
        ELSE IF EndsWith(cleaned, "'s")
            THEN Some(Trim(SubSeq(cleaned, 1, Len(cleaned) - 2)))
            ELSE Some(cleaned)

\* the length of the longest run of characters satisfying the class, from position i
RECURSIVE RunLower(_, _)
RunLower(s, i) == IF i <= Len(s) /\ IsLowerLetter(Ch(s, i)) THEN 1 + RunLower(s, i + 1) ELSE 0

RECURSIVE RunSpace(_, _)
RunSpace(s, i) == IF i <= Len(s) /\ Ch(s, i) \in Whitespace THEN 1 + RunSpace(s, i + 1) ELSE 0

\* /^[A-Z][a-z]+/ from position i: the position after the match, 0 when none
CapWordEnd(s, i) ==
    IF i <= Len(s) /\ IsUpperLetter(Ch(s, i)) /\ RunLower(s, i + 1) > 0
        THEN i + 1 + RunLower(s, i + 1)
        ELSE 0

\* /^[A-Z]\.\s+/ from position i: the position of the point, 0 when none
InitialEnd(s, i) ==
    IF /\ i + 1 <= Len(s)
       /\ IsUpperLetter(Ch(s, i))
       /\ Ch(s, i + 1) = "."
       /\ RunSpace(s, i + 2) > 0
        THEN i + 1
        ELSE 0

\* trimmed.match(/^([A-Z][a-z]+(?:\s+[A-Z][a-z]+)?\s+[A-Z]\.)\s+/)?.[1]
InitialPattern(s) ==
    LET e1 == CapWordEnd(s, 1)
        g1 == IF e1 = 0 THEN 0 ELSE RunSpace(s, e1)
        p2 == e1 + g1
        e2 == IF e1 = 0 \/ g1 = 0 THEN 0 ELSE CapWordEnd(s, p2)
        g2 == IF e2 = 0 THEN 0 ELSE RunSpace(s, e2)
        viaTwo == IF e2 = 0 \/ g2 = 0 THEN 0 ELSE InitialEnd(s, e2 + g2)
        viaOne == IF e1 = 0 \/ g1 = 0 THEN 0 ELSE InitialEnd(s, p2)
    IN  IF viaTwo > 0 THEN Some(SubSeq(s, 1, viaTwo))
        ELSE IF viaOne > 0 THEN Some(SubSeq(s, 1, viaOne))
        ELSE NULL

\* the alternatives of makePattern, lower-cased (the pattern is case-insensitive)
VehicleMakes ==
    {"toyota", "tesla", "chevrolet", "bmw", "mercedes", "mercedes-benz", "audi",
     "volkswagen", "vw", "nissan", "mitsubishi", "mini", "kia", "hyundai", "ford",
     "honda", "subaru", "mazda", "lexus", "acura", "jeep", "ram", "porsche", "volvo",
     "gmc", "cadillac", "buick", "chrysler", "dodge", "lincoln", "infiniti", "genesis",
     "land rover"}

\* \w
IsWordChar(c) == IsLowerLetter(c) \/ IsUpperLetter(c) \/ c \in Digits \/ c = "_"

\* does /\b(make)\b/i match the lower-cased string at position i
MakeAt(lower, i) ==
    /\ (i = 1 \/ ~IsWordChar(Ch(lower, i - 1)))
    /\ \E m \in VehicleMakes :
          /\ i + Len(m) - 1 <= Len(lower)
          /\ SubSeq(lower, i, i + Len(m) - 1) = m
          /\ (i + Len(m) - 1 = Len(lower) \/ ~IsWordChar(Ch(lower, i + Len(m))))

\* makeMatch.index + 1: the leftmost position of a make, 0 when none
RECURSIVE MakeIndexFrom(_, _)
MakeIndexFrom(lower, i) ==
    IF i > Len(lower) THEN 0
    ELSE IF MakeAt(lower, i) THEN i
    ELSE MakeIndexFrom(lower, i + 1)

extractOwnerName(vehicleName) ==
    LET trimmed    == Trim(vehicleName)
        possessive == IndexOf(trimmed, "'s ")
        initial    == InitialPattern(trimmed)
        make       == MakeIndexFrom(ToLowerCase(trimmed), 1)
        prefix     == Trim(StripTrailingSeparators(Trim(SubSeq(trimmed, 1, make - 1))))
    IN  IF trimmed = "" THEN "Unknown owner"
        ELSE IF possessive > 1
            THEN (IF Trim(SubSeq(trimmed, 1, possessive - 1)) = ""
                      THEN "Unknown owner"
                      ELSE Trim(SubSeq(trimmed, 1, possessive - 1)))
        ELSE IF initial # NULL THEN Trim(initial[1])
        ELSE IF make > 1 /\ prefix # "" THEN prefix
        ELSE "Unknown owner"

\* value.split(/\s+/) of a trimmed, non-empty string
RECURSIVE SplitWords(_)
SplitWords(s) ==
    LET t == TrimLeft(s)
        n == IF IndexOfChar(t, " ") = 0 THEN IndexOfChar(t, "\t")
             ELSE IF IndexOfChar(t, "\t") = 0 THEN IndexOfChar(t, " ")
             ELSE IF IndexOfChar(t, " ") < IndexOfChar(t, "\t") THEN IndexOfChar(t, " ")
             ELSE IndexOfChar(t, "\t")
    IN  IF t = "" THEN <<>>
        ELSE IF n = 0 THEN <<t>>
        ELSE <<SubSeq(t, 1, n - 1)>> \o SplitWords(SubSeq(t, n + 1, Len(t)))

normalizeToken(value) == LowerAlnum(value)
normalizeVehicleKey(value) == LowerAlnum(value)

\* the words whose normalised form is not empty
RECURSIVE TokenWords(_)
TokenWords(words) ==
    IF Len(words) = 0 THEN <<>>
    ELSE IF normalizeToken(words[1]) = "" THEN TokenWords(Tail(words))
    ELSE <<[raw |-> words[1], norm |-> normalizeToken(words[1])]>> \o TokenWords(Tail(words))

matchesToken(a, b) == a = b \/ StartsWith(a, b) \/ StartsWith(b, a)

\* the while loop: how many words match from startIdx on (positions are 1-based)
RECURSIVE MatchedDepth(_, _, _, _, _)
MatchedDepth(rawWords, cleanWords, startIdx, matched, maxMatchDepth) ==
    IF /\ matched < maxMatchDepth
       /\ startIdx + matched <= Len(rawWords)
       /\ matchesToken(rawWords[startIdx + matched].norm, cleanWords[matched + 1].norm)
        THEN MatchedDepth(rawWords, cleanWords, startIdx, matched + 1, maxMatchDepth)
        ELSE matched

Min(a, b) == IF a < b THEN a ELSE b
Max(a, b) == IF a > b THEN a ELSE b

\* the for loop over startIdx (1-based); returns at the first start that qualifies
RECURSIVE FuzzyPrefixFrom(_, _, _)
FuzzyPrefixFrom(rawWords, cleanWords, startIdx) ==
    IF startIdx > Len(rawWords) THEN NULL
    ELSE IF ~matchesToken(rawWords[startIdx].norm, cleanWords[1].norm)
        THEN FuzzyPrefixFrom(rawWords, cleanWords, startIdx + 1)
    ELSE IF /\ MatchedDepth(rawWords, cleanWords, startIdx, 1, Min(Len(cleanWords), 4))
                  >= Min(2, Len(cleanWords))
            /\ startIdx > 1
        THEN cleanOwnerPrefix(
                 Join([i \in 1..(startIdx - 1) |-> rawWords[i].raw], " "))
    ELSE FuzzyPrefixFrom(rawWords, cleanWords, startIdx + 1)

extractOwnerFromVehicleColumns(rawVehicle, cleanVehicle) ==
    LET raw   == Trim(rawVehicle)
        clean == Trim(cleanVehicle)
        idx   == IndexOf(ToLowerCase(raw), ToLowerCase(clean))
        rawWords   == TokenWords(SplitWords(raw))
        cleanWords == TokenWords(SplitWords(clean))
    IN  IF raw = "" \/ clean = "" THEN NULL
        ELSE IF idx > 1 THEN cleanOwnerPrefix(SubSeq(raw, 1, idx - 1))
        ELSE IF Len(rawWords) = 0 \/ Len(cleanWords) = 0 THEN NULL
        ELSE FuzzyPrefixFrom(rawWords, cleanWords, 1)

(***************************************************************************)
(* Row validator and allocation engine.                                    *)
(***************************************************************************)

\* Math.round(num / den) for den > 0: the nearest integer, a tie going up
MathRoundDiv(num, den) == (2 * num + den) \div (2 * den)

\* a variant that reads the gross revenue cell when the item has no column
amountCentsOrGross(raw, map, item) ==
    LET parsed == IF item \in DOMAIN map.splitItemColumns
                      THEN parseMoneyCents(Cell(raw, map.splitItemColumns[item]))
                      ELSE parseMoneyCents(Cell(raw, map.grossRevenue))
    IN  IF parsed = NULL THEN 0 ELSE parsed[1]

\* parseMoneyCents(columnName ? raw[columnName] : undefined) ?? 0
amountCents(raw, map, item) ==
    LET parsed == IF item \in DOMAIN map.splitItemColumns
                      THEN parseMoneyCents(Cell(raw, map.splitItemColumns[item]))
                      ELSE parseMoneyCents(NULL)
    IN  IF parsed = NULL THEN 0 ELSE parsed[1]

\* a variant with Math.floor in place of Math.round
lrPartCentsFloor(amount, item) == (amount * splitRatios[item].lrBps) \div 10000

\* Math.round((amountCents * splitRatios[item].lrBps) / 10000)
lrPartCents(amount, item) == MathRoundDiv(amount * splitRatios[item].lrBps, 10000)

ownerPartCents(amount, lrPart) == amount - lrPart

\* a variant that rounds the owner part on its own instead of subtracting
SplitStepBothRounded(raw, map, item) ==
    LET amount == amountCents(raw, map, item)
    IN  [item |-> item, amountCents |-> amount,
         lrPartCents |-> MathRoundDiv(amount * splitRatios[item].lrBps, 10000),
         ownerPartCents |-> MathRoundDiv(amount * splitRatios[item].ownerBps, 10000)]

\* one iteration of the loop over the line items: what it computed
SplitStep(raw, map, item) ==
    LET amount == amountCents(raw, map, item)
        lrPart == lrPartCents(amount, item)
    IN  [item |-> item, amountCents |-> amount,
         lrPartCents |-> lrPart, ownerPartCents |-> ownerPartCents(amount, lrPart)]

\* the loop over Object.keys(splitRatios): its iterations in order
SplitSteps(raw, map) == [i \in 1..Len(SplitItems) |-> SplitStep(raw, map, SplitItems[i])]

RECURSIVE SumLrParts(_)
SumLrParts(steps) ==
    IF Len(steps) = 0 THEN 0 ELSE steps[1].lrPartCents + SumLrParts(Tail(steps))

RECURSIVE SumOwnerParts(_)
SumOwnerParts(steps) ==
    IF Len(steps) = 0 THEN 0 ELSE steps[1].ownerPartCents + SumOwnerParts(Tail(steps))

\* a || b for strings and nulls: the first that is neither null nor empty
OrElse(a, b) == IF a # NULL /\ a # Some("") THEN a ELSE b

\* a variant that looks at the clean vehicle column only
RowVehicleNameCleanOnly(raw, map) ==
    LET cleanVehicleName == Trim(CellText(raw, map.vehicleName))
    IN  OrElse(Some(cleanVehicleName), Some("Unknown vehicle"))[1]

\* cleanVehicleName || rawVehicleName || 'Unknown vehicle'
RowVehicleName(raw, map) ==
    LET cleanVehicleName == Trim(CellText(raw, map.vehicleName))
        rawVehicleName   == Trim(CellText(raw, map.vehicleRaw))
    IN  OrElse(Some(cleanVehicleName), OrElse(Some(rawVehicleName), Some("Unknown vehicle")))[1]

\* a variant that asks the vehicle columns before the name columns
RowOwnerNameVehicleFirst(raw, map) ==
    LET cleanVehicleName == Trim(CellText(raw, map.vehicleName))
        rawVehicleName   == Trim(CellText(raw, map.vehicleRaw))
        ownerFromColumn  == Trim(CellText(raw, map.ownerName))
        ownerFirst       == Trim(CellText(raw, map.ownerFirstName))
        ownerLast        == Trim(CellText(raw, map.ownerLastName))
        ownerFromParts   == Trim(Join(FilterNonEmpty(<<ownerFirst, ownerLast>>), " "))
        ownerFromVehicleColumns ==
            IF cleanVehicleName # "" /\ rawVehicleName # ""
                THEN extractOwnerFromVehicleColumns(rawVehicleName, cleanVehicleName)
                ELSE NULL
    IN  OrElse(Some(ownerFromColumn),
          OrElse(ownerFromVehicleColumns,
            OrElse(Some(ownerFromParts),
                   Some(extractOwnerName(RowVehicleName(raw, map))))))[1]

RowOwnerName(raw, map) ==
    LET cleanVehicleName == Trim(CellText(raw, map.vehicleName))
        rawVehicleName   == Trim(CellText(raw, map.vehicleRaw))
        ownerFromColumn  == Trim(CellText(raw, map.ownerName))
        ownerFirst       == Trim(CellText(raw, map.ownerFirstName))
        ownerLast        == Trim(CellText(raw, map.ownerLastName))
        ownerFromParts   == Trim(Join(FilterNonEmpty(<<ownerFirst, ownerLast>>), " "))
        ownerFromVehicleColumns ==
            IF cleanVehicleName # "" /\ rawVehicleName # ""
                THEN extractOwnerFromVehicleColumns(rawVehicleName, cleanVehicleName)
                ELSE NULL
    IN  OrElse(Some(ownerFromColumn),
          OrElse(Some(ownerFromParts),
            OrElse(ownerFromVehicleColumns,
                   Some(extractOwnerName(RowVehicleName(raw, map))))))[1]

\* parseRow: either throws (threw, with the message) or returns the record.
\* Amounts of the record are kept in cents: grossRevenue, netEarnings,
\* addonsRevenue, lrShare and ownerShare are the code's values times 100.
\* steps are the iterations of the allocation loop that produced the shares.
parseRow(raw, rowNumber, map) ==
    LET start == parseDate(Cell(raw, map.tripStart))
        end   == parseDate(Cell(raw, map.tripEnd))
        gross == parseMoney(Cell(raw, map.grossRevenue))
        steps == SplitSteps(raw, map)
        statusText == Trim(CellText(raw, map.status))
    IN  IF start = NULL \/ end = NULL \/ gross = NULL
            THEN [threw |-> TRUE,
                  message |-> "Row " \o ToString(rowNumber) \o ": invalid date or revenue format."]
        ELSE IF RowVehicleName(raw, map) = "Unknown vehicle"
            THEN [threw |-> TRUE,
                  message |-> "Row " \o ToString(rowNumber) \o ": missing vehicle name."]
        ELSE [threw |-> FALSE,
              steps |-> steps,
              record |->
                [rowNumber     |-> rowNumber,
                 tripStart     |-> start[1],
                 tripEnd       |-> end[1],
                 vehicleName   |-> RowVehicleName(raw, map),
                 ownerName     |-> RowOwnerName(raw, map),
                 grossRevenue  |-> gross[1],
                 netEarnings   |-> IF map.netEarnings # NULL
                                       THEN parseMoney(Cell(raw, map.netEarnings[1]))
                                       ELSE NULL,
                 addonsRevenue |-> IF map.addonsRevenue # NULL
                                       THEN parseMoney(Cell(raw, map.addonsRevenue[1]))
                                       ELSE NULL,
                 lrShare       |-> SumLrParts(steps),
                 ownerShare    |-> SumOwnerParts(steps),
                 isCancelled   |-> parseCancelled(raw, map),
                 status        |-> IF map.status # NULL /\ statusText # ""
                                       THEN Some(statusText)
                                       ELSE NULL]]

(***************************************************************************)
(* Owner backfill.                                                         *)
(***************************************************************************)

\* the rows that count for owner under vehicleKey in ownerCountsByVehicle
OwnerRows(records, vehicleKey, owner) ==
    {i \in 1..Len(records) :
        /\ records[i].ownerName = owner
        /\ normalizeVehicleKey(records[i].vehicleName) = vehicleKey}

KnownOwners(records, vehicleKey) ==
    {records[i].ownerName : i \in {j \in 1..Len(records) :
        /\ records[j].ownerName # "Unknown owner"
        /\ normalizeVehicleKey(records[j].vehicleName) = vehicleKey}}

SetMin(S) == CHOOSE x \in S : \A y \in S : x <= y

\* a variant that takes, of the owners with the highest count, the one that
\* occurred last
preferredOwnerLastOfTied(records, vehicleKey) ==
    LET owners == KnownOwners(records, vehicleKey)
        count(o) == Cardinality(OwnerRows(records, vehicleKey, o))
        first(o) == SetMin(OwnerRows(records, vehicleKey, o))
    IN  IF vehicleKey = "" \/ owners = {} THEN NULL
        ELSE Some(CHOOSE o \in owners :
                 \A p \in owners \ {o} :
                    \/ count(o) > count(p)
                    \/ (count(o) = count(p) /\ first(o) > first(p)))

\* a variant that takes the owner that occurred first, whatever the counts
preferredOwnerFirstSeen(records, vehicleKey) ==
    LET owners == KnownOwners(records, vehicleKey)
        first(o) == SetMin(OwnerRows(records, vehicleKey, o))
    IN  IF vehicleKey = "" \/ owners = {} THEN NULL
        ELSE Some(CHOOSE o \in owners : \A p \in owners \ {o} : first(o) < first(p))

\* Array.from(ownerCounts.entries()).sort((a, b) => b[1] - a[1])[0]?.[0]: the
\* entries are in order of first occurrence and the sort is stable, so of the
\* owners with the highest count the one that occurred first comes first
preferredOwner(records, vehicleKey) ==
    LET owners == KnownOwners(records, vehicleKey)
        count(o) == Cardinality(OwnerRows(records, vehicleKey, o))
        first(o) == SetMin(OwnerRows(records, vehicleKey, o))
    IN  IF vehicleKey = "" \/ owners = {} THEN NULL
        ELSE Some(CHOOSE o \in owners :
                 \A p \in owners \ {o} :
                    \/ count(o) > count(p)
                    \/ (count(o) = count(p) /\ first(o) < first(p)))

\* a variant that also writes the vehicle key into the rows it rewrites
backfillOwnersAndVehicleKeys(records) ==
    [i \in 1..Len(records) |->
        IF records[i].ownerName # "Unknown owner" THEN records[i]
        ELSE LET inferredOwner == preferredOwner(records, normalizeVehicleKey(records[i].vehicleName))
             IN  IF inferredOwner # NULL
                     THEN [records[i] EXCEPT !.ownerName = inferredOwner[1],
                                             !.vehicleName = normalizeVehicleKey(@)]
                     ELSE records[i]]

\* a variant that infers the owner from the rows up to the row itself
backfillOwnersFromEarlierRows(records) ==
    [i \in 1..Len(records) |->
        IF records[i].ownerName # "Unknown owner" THEN records[i]
        ELSE LET inferredOwner == preferredOwner(SubSeq(records, 1, i),
                                                 normalizeVehicleKey(records[i].vehicleName))
             IN  IF inferredOwner # NULL
                     THEN [records[i] EXCEPT !.ownerName = inferredOwner[1]]
                     ELSE records[i]]

backfillOwnersFromKnownVehicles(records) ==
    [i \in 1..Len(records) |->
        IF records[i].ownerName # "Unknown owner" THEN records[i]
        ELSE LET inferredOwner == preferredOwner(records, normalizeVehicleKey(records[i].vehicleName))
             IN  IF inferredOwner # NULL
                     THEN [records[i] EXCEPT !.ownerName = inferredOwner[1]]
                     ELSE records[i]]

\* the warnings pushed after the backfill, in record order
RECURSIVE OwnerWarnings(_)
OwnerWarnings(records) ==
    IF Len(records) = 0 THEN <<>>
    ELSE (IF records[1].ownerName = "Unknown owner"
              THEN << "Row " \o ToString(records[1].rowNumber)
                      \o ": could not determine owner for vehicle \""
                      \o records[1].vehicleName \o "\"." >>
              ELSE <<>>)
         \o OwnerWarnings(Tail(records))

(***************************************************************************)
(* Aggregation engine.                                                     *)
(***************************************************************************)

\* a variant that ignores netEarnings
TotalEarningsGrossOnly(row) == row.grossRevenue

\* row.netEarnings ?? row.grossRevenue
TotalEarningsOf(row) == IF row.netEarnings # NULL THEN row.netEarnings[1] ELSE row.grossRevenue

RECURSIVE SumGross(_)
SumGross(records) ==
    IF Len(records) = 0 THEN 0 ELSE records[1].grossRevenue + SumGross(Tail(records))

RECURSIVE SumTotalEarnings(_)
SumTotalEarnings(records) ==
    IF Len(records) = 0 THEN 0 ELSE TotalEarningsOf(records[1]) + SumTotalEarnings(Tail(records))

RECURSIVE SumNet(_)
SumNet(records) ==
    IF Len(records) = 0 THEN 0
    ELSE (IF records[1].netEarnings # NULL THEN records[1].netEarnings[1] ELSE 0)
         + SumNet(Tail(records))

RECURSIVE SumLrShare(_)
SumLrShare(records) ==
    IF Len(records) = 0 THEN 0 ELSE records[1].lrShare + SumLrShare(Tail(records))

RECURSIVE SumOwnerShare(_)
SumOwnerShare(records) ==
    IF Len(records) = 0 THEN 0 ELSE records[1].ownerShare + SumOwnerShare(Tail(records))

\* records.filter(pred)
RECURSIVE FilterCompleted(_)
FilterCompleted(records) ==
    IF Len(records) = 0 THEN <<>>
    ELSE (IF records[1].status # NULL /\ ToLowerCase(Trim(records[1].status[1])) = "completed"
              THEN <<records[1]>>
              ELSE <<>>)
         \o FilterCompleted(Tail(records))

LABOR_HOURS_PER_BOOKING == 2
LABOR_RATE_PER_HOUR == 15

IsLeapYear(year) == (year % 4 = 0 /\ year % 100 # 0) \/ year % 400 = 0

\* new Date(year, monthIndex + 1, 0).getDate(): the days of the month with
\* the 0-based index monthIndex
daysInMonth(year, monthIndex) ==
    IF monthIndex = 1 THEN (IF IsLeapYear(year) THEN 29 ELSE 28)
    ELSE IF monthIndex \in {3, 5, 8, 10} THEN 30
    ELSE 31

RECURSIVE DaysBeforeMonth(_, _)
DaysBeforeMonth(year, month) ==
    IF month = 1 THEN 0
    ELSE daysInMonth(year, month - 2) + DaysBeforeMonth(year, month - 1)

\* date.getTime(), in hours, of a local date in a zone without clock changes
TimeHours(date) ==
    (365 * date.year + (date.year - 1) \div 4 - (date.year - 1) \div 100
        + (date.year - 1) \div 400 + DaysBeforeMonth(date.year, date.month) + date.day) * 24
    + date.hour

\* Math.ceil(a / b) for b > 0
CeilDiv(a, b) == 0 - ((0 - a) \div b)

\* Math.max(1, Math.ceil((end.getTime() - start.getTime()) / msPerDay))
dayDiff(start, end) == Max(1, CeilDiv(TimeHours(end) - TimeHours(start), 24))

\* `${date.getFullYear()}-${String(date.getMonth() + 1).padStart(2, '0')}`:
\* the year and the 1-based month; the keys are zero-padded, so localeCompare
\* orders them as (year, month)
monthKey(date) == <<date.year, date.month>>

MonthNames ==
    <<"Jan", "Feb", "Mar", "Apr", "May", "Jun", "Jul", "Aug", "Sep", "Oct", "Nov", "Dec">>

\* new Date(year, month - 1, 1).toLocaleDateString(undefined, {month: 'short',
\* year: 'numeric'}), in an English locale
monthLabel(key) == MonthNames[key[2]] \o " " \o ToString(key[1])

\* a variant that buckets a row by the month its trip starts in
MonthKeyOfStart(row) == monthKey(row.tripStart)

\* const key = monthKey(row.tripEnd)
MonthKeyOf(row) == monthKey(row.tripEnd)

KeyLess(a, b) == a[1] < b[1] \/ (a[1] = b[1] /\ a[2] < b[2])

\* the keys of a Map, sorted with localeCompare
RECURSIVE SortKeys(_)
SortKeys(keys) ==
    IF keys = {} THEN <<>>
    ELSE LET least == CHOOSE k \in keys : \A o \in keys \ {k} : KeyLess(k, o)
         IN  <<least>> \o SortKeys(keys \ {least})

Front(s) == SubSeq(s, 1, Len(s) - 1)

Range(s) == {s[i] : i \in 1..Len(s)}

\* a variant that keeps a key once for every row that has it
FirstOccurrencesRepeated(keys) == keys

\* the keys of a Map in the order of their first insertion
RECURSIVE FirstOccurrences(_)
FirstOccurrences(keys) ==
    IF Len(keys) = 0 THEN <<>>
    ELSE LET front == FirstOccurrences(Front(keys))
         IN  IF keys[Len(keys)] \in Range(front) THEN front ELSE Append(front, keys[Len(keys)])

\* a variant that stores the amount in place of adding it
AccumulateOverwrite(current, amount) == amount

\* map.set(key, (map.get(key) ?? 0) + amount)
Accumulate(current, amount) == current + amount

\* what a Map holds under key after the loop over the rows has accumulated
\* the amounts, row i under keys[i]
RECURSIVE SumWhere(_, _, _)
SumWhere(keys, amounts, key) ==
    IF Len(keys) = 0 THEN 0
    ELSE IF keys[Len(keys)] = key
        THEN Accumulate(SumWhere(Front(keys), Front(amounts), key), amounts[Len(keys)])
        ELSE SumWhere(Front(keys), Front(amounts), key)

MonthKeysOf(records) == [i \in 1..Len(records) |-> MonthKeyOf(records[i])]

VehiclesOf(records) == [i \in 1..Len(records) |-> records[i].vehicleName]

\* Math.max(1, new Set(records.map((row) => monthKey(row.tripEnd))).size)
activeMonths(records) == Max(1, Cardinality({monthKey(records[i].tripEnd) : i \in 1..Len(records)}))

monthlyRevenue(records) ==
    LET sorted == SortKeys(Range(MonthKeysOf(records)))
    IN  [j \in 1..Len(sorted) |->
            [month   |-> monthLabel(sorted[j]),
             revenue |-> SumWhere(MonthKeysOf(records),
                                  [i \in 1..Len(records) |-> records[i].grossRevenue], sorted[j])]]

\* a variant without Math.min(pct, 100)
monthUtilizationPctUncapped(bookedDays, monthCapacityDays) ==
    MathRoundDiv(1000 * bookedDays, monthCapacityDays)

\* Number(Math.min((bookedDays / monthCapacityDays) * 100, 100).toFixed(1)),
\* in tenths of a percent
monthUtilizationPct(bookedDays, monthCapacityDays) ==
    IF bookedDays >= monthCapacityDays THEN 1000
    ELSE MathRoundDiv(1000 * bookedDays, monthCapacityDays)

\* activeVehiclesByMonth.get(key)
activeVehiclesOf(records, key) ==
    {records[i].vehicleName : i \in {j \in 1..Len(records) : MonthKeyOf(records[j]) = key}}

monthlyUtilization(records) ==
    LET sorted == SortKeys(Range(MonthKeysOf(records)))
    IN  [j \in 1..Len(sorted) |->
            [month |-> monthLabel(sorted[j]),
             utilizationPct |->
                 monthUtilizationPct(
                     SumWhere(MonthKeysOf(records),
                              [i \in 1..Len(records) |->
                                  dayDiff(records[i].tripStart, records[i].tripEnd)],
                              sorted[j]),
                     daysInMonth(sorted[j][1], sorted[j][2] - 1)
                         * Max(1, Cardinality(activeVehiclesOf(records, sorted[j]))))]]

monthlySplit(records) ==
    LET sorted == SortKeys(Range(MonthKeysOf(records)))
    IN  [j \in 1..Len(sorted) |->
            [month      |-> monthLabel(sorted[j]),
             lrShare    |-> SumWhere(MonthKeysOf(records),
                                     [i \in 1..Len(records) |-> records[i].lrShare], sorted[j]),
             ownerShare |-> SumWhere(MonthKeysOf(records),
                                     [i \in 1..Len(records) |-> records[i].ownerShare], sorted[j])]]

\* current.ownerName = row.ownerName: the owner of the vehicle's last row
LastOwnerOf(records, vehicle) ==
    records[CHOOSE i \in 1..Len(records) :
                /\ records[i].vehicleName = vehicle
                /\ \A j \in (i + 1)..Len(records) : records[j].vehicleName # vehicle].ownerName

\* array.sort((a, b) => b.key - a.key) on pairs <<key, entry>>: descending,
\* entries with equal keys staying in the order they had
RECURSIVE InsertDesc(_, _)
InsertDesc(sorted, pair) ==
    IF Len(sorted) = 0 THEN <<pair>>
    ELSE IF sorted[1][1] >= pair[1] THEN <<sorted[1]>> \o InsertDesc(Tail(sorted), pair)
    ELSE <<pair>> \o sorted

RECURSIVE SortDesc(_)
SortDesc(pairs) ==
    IF Len(pairs) = 0 THEN <<>>
    ELSE InsertDesc(SortDesc(Front(pairs)), pairs[Len(pairs)])

\* the trips of a vehicle that end in the month key
vehicleMonthTripCount(records, vehicle, key) ==
    Cardinality({i \in 1..Len(records) :
                    records[i].vehicleName = vehicle /\ MonthKeyOf(records[i]) = key})

\* Math.min((tripCount * LABOR_HOURS_PER_BOOKING / capacityDays) * 100, 100)
\* as a fraction <<numerator, denominator>>
vehicleMonthUtilization(tripCount, capacityDays) ==
    IF tripCount * LABOR_HOURS_PER_BOOKING >= capacityDays
        THEN <<100, 1>>
        ELSE <<100 * tripCount * LABOR_HOURS_PER_BOOKING, capacityDays>>

\* the sum of the fractions of a sequence, as a fraction
RECURSIVE SumFractions(_)
SumFractions(fractions) ==
    IF Len(fractions) = 0 THEN <<0, 1>>
    ELSE LET rest == SumFractions(Tail(fractions))
         IN  <<fractions[1][1] * rest[2] + rest[1] * fractions[1][2], fractions[1][2] * rest[2]>>

\* the mean of the vehicle's monthly values, toFixed(1), in tenths of a
\* percent; 0 without a month
vehicleUtilizationPct(records, vehicle) ==
    LET months == FirstOccurrences(
                      MonthKeysOf(SelectSeq(records, LAMBDA row : row.vehicleName = vehicle)))
        total  == SumFractions(
                      [j \in 1..Len(months) |->
                          vehicleMonthUtilization(
                              vehicleMonthTripCount(records, vehicle, months[j]),
                              daysInMonth(months[j][1], months[j][2] - 1))])
    IN  IF Len(months) = 0 THEN 0
        ELSE MathRoundDiv(10 * total[1], total[2] * Len(months))

vehiclePerformance(records) ==
    LET vehicles == FirstOccurrences(VehiclesOf(records))
        entries  ==
            [j \in 1..Len(vehicles) |->
                [vehicle        |-> vehicles[j],
                 ownerName      |-> LastOwnerOf(records, vehicles[j]),
                 grossRevenue   |-> SumWhere(VehiclesOf(records),
                                             [i \in 1..Len(records) |-> records[i].grossRevenue],
                                             vehicles[j]),
                 tripCount      |-> SumWhere(VehiclesOf(records),
                                             [i \in 1..Len(records) |-> 1], vehicles[j]),
                 utilizationPct |-> vehicleUtilizationPct(records, vehicles[j])]]
        sorted   == SortDesc([j \in 1..Len(entries) |-> <<entries[j].grossRevenue, entries[j]>>])
    IN  [j \in 1..Len(sorted) |-> sorted[j][2]]

\* the counts and totals of the breakdown; the ratios derived from them
\* (per labor hour, per booking, per active month) are left out
vehicleBreakdown(records) ==
    LET vehicles == FirstOccurrences(VehiclesOf(records))
        entries  ==
            [j \in 1..Len(vehicles) |->
                LET trips == SumWhere(VehiclesOf(records), [i \in 1..Len(records) |-> 1],
                                      vehicles[j])
                IN  [vehicle         |-> vehicles[j],
                     ownerName       |-> LastOwnerOf(records, vehicles[j]),
                     trips           |-> trips,
                     totalBookings   |-> trips,
                     totalEarnings   |-> SumWhere(VehiclesOf(records),
                                            [i \in 1..Len(records) |-> TotalEarningsOf(records[i])],
                                            vehicles[j]),
                     lrShare         |-> SumWhere(VehiclesOf(records),
                                            [i \in 1..Len(records) |-> records[i].lrShare],
                                            vehicles[j]),
                     ownerShare      |-> SumWhere(VehiclesOf(records),
                                            [i \in 1..Len(records) |-> records[i].ownerShare],
                                            vehicles[j]),
                     totalLaborHours |-> trips * LABOR_HOURS_PER_BOOKING,
                     laborCost       |-> trips * LABOR_HOURS_PER_BOOKING * LABOR_RATE_PER_HOUR * 100]]
        sorted   == SortDesc([j \in 1..Len(entries) |-> <<entries[j].totalEarnings, entries[j]>>])
    IN  [j \in 1..Len(sorted) |-> sorted[j][2]]

\* buildDashboardData.  Each currency sum is a sum of amounts with two
\* decimals, rounded to two decimals at the end (roundCurrency), so it is the
\* sum of the cents; amounts of the result are in cents, percentages in
\* tenths of a percent.
buildDashboardData(records) ==
    [metrics |->
        [totalTrips    |-> Len(records),
         totalBookings |-> Len(records),
         activeMonths  |-> activeMonths(records),
         grossRevenue  |-> SumGross(records),
         totalEarnings |-> SumTotalEarnings(records),
         netEarnings   |-> IF \E i \in 1..Len(records) : records[i].netEarnings # NULL
                               THEN Some(SumNet(records))
                               ELSE NULL,
         lrShare       |-> SumLrShare(records),
         ownerShare    |-> SumOwnerShare(records)],
     monthlyRevenue     |-> monthlyRevenue(records),
     monthlyUtilization |-> monthlyUtilization(records),
     monthlySplit       |-> monthlySplit(records),
     vehicleBreakdown   |-> vehicleBreakdown(records),
     vehiclePerformance |-> vehiclePerformance(records)]

(***************************************************************************)
(* The files of the model.                                                 *)
(***************************************************************************)
HFull ==
    <<"Trip start", "Trip end", "Vehicle name", "Vehicle", "Trip status",
      "Trip price", "Cleaning", "Total earnings">>
HAlias == <<"Start Date", "End_Date", "Car", "Gross Revenue">>
HTail == <<"Vehicle name", "Trip status", "Total earnings">>

\* the header rows made of some of the three required columns, in order,
\* followed by HTail; the first one is the header row of the repository's
\* missing-column test, the last one resolves
HRequiredSubsets ==
    { (IF s THEN <<"Trip start">> ELSE <<>>) \o (IF e THEN <<"Trip end">> ELSE <<>>)
        \o (IF g THEN <<"Trip price">> ELSE <<>>) \o HTail : s, e, g \in BOOLEAN }

HeaderRows == {<<>>, HFull, HAlias} \cup HRequiredSubsets

\* the header rows of the rows handed to parseRow on its own
HWide ==
    <<"Trip start", "Trip end", "Vehicle name", "Vehicle", "Trip price",
      "Cleaning", "Excess distance", "Delivery", "Total earnings">>
HNarrow ==
    <<"Trip start", "Trip end", "Vehicle name", "Vehicle", "Trip price",
      "Excess distance", "Total earnings">>

\* the header rows whose optional owner columns are some of the three
OwnerHeaderRows ==
    { <<"Trip start", "Trip end", "Trip price", "Vehicle name", "Vehicle">>
        \o (IF o THEN <<"Owner">> ELSE <<>>)
        \o (IF f THEN <<"Owner first name">> ELSE <<>>)
        \o (IF l THEN <<"Owner last name">> ELSE <<>>) : o, f, l \in BOOLEAN }

\* the header rows with or without a status and a cancelled column
CancelHeaderRows ==
    { <<"Trip start", "Trip end", "Trip price", "Vehicle name">>
        \o (IF s THEN <<"Trip status">> ELSE <<>>)
        \o (IF c THEN <<"Cancelled">> ELSE <<>>) : s, c \in BOOLEAN }

\* buildColumnMap(headers) of these header rows, computed once
ColumnMaps ==
    [headers \in {HWide, HNarrow} \cup OwnerHeaderRows \cup CancelHeaderRows |->
        buildColumnMap(headers)]

DateA == "2025-01-30 10:00 AM"
DateB == "2025-02-02 11:00 AM"

FullRow(start, end, vehicleName, vehicle, status, price, cleaning, total) ==
    ("Trip start" :> start) @@ ("Trip end" :> end) @@ ("Vehicle name" :> vehicleName) @@
    ("Vehicle" :> vehicle) @@ ("Trip status" :> status) @@ ("Trip price" :> price) @@
    ("Cleaning" :> cleaning) @@ ("Total earnings" :> total)

AliasRow(start, end, car, gross) ==
    ("Start Date" :> start) @@ ("End_Date" :> end) @@ ("Car" :> car) @@ ("Gross Revenue" :> gross)

TailRow(start, end, price, vehicleName, status, total) ==
    ("Trip start" :> start) @@ ("Trip end" :> end) @@ ("Trip price" :> price) @@
    ("Vehicle name" :> vehicleName) @@ ("Trip status" :> status) @@ ("Total earnings" :> total)

\* the data rows a file with the given header row may hold
RowPool(fields) ==
    IF fields = HFull THEN
        { FullRow(DateA, DateB, "Toyota Sienna 2024", "Ehsan's Toyota Sienna 2024",
                  "Completed", "$100.00", "$20.00", "$120.00"),
          FullRow(DateA, DateB, "Toyota Sienna 2024", "Toyota Sienna 2024",
                  "Canceled", "$0.05", "", ""),
          FullRow("", DateB, "Toyota Sienna 2024", "Toyota Sienna 2024",
                  "Completed", "$100.00", "$20.00", "$120.00"),
          FullRow(DateA, DateB, " ", "", "Completed", "$100.00", "$20.00", "$120.00"),
          FullRow(DateA, DateA, "Honda Civic 2020", "Honda Civic 2020",
                  "Completed", "$50.00", "n/a", "$50.00"),
          FullRow(DateA, DateB, "", "Mia's Honda Civic 2020",
                  "Completed", "$100.00", "($20.00)", "$65.00") }
    ELSE IF fields = HAlias THEN
        { AliasRow(DateA, DateB, "Kai's Jeep", "250"),
          AliasRow(DateA, "tomorrow", "Kai's Jeep", "250"),
          AliasRow(DateA, DateB, "", "250"),
          ("Start Date" :> DateA) @@ ("End_Date" :> DateB) @@ ("Car" :> "Jeep") }
    ELSE IF fields = <<"Trip start", "Trip end", "Trip price">> \o HTail THEN
        { TailRow(DateA, DateB, "$80.00", "Ford F-150", "Completed", "$80.00"),
          TailRow(DateA, DateB, "abc", "Ford F-150", "Completed", "$80.00") }
    ELSE {}

(***************************************************************************)
(* parseTuroCsv, called by handleFile with the policy of the fee settings. *)
(***************************************************************************)
ParseIdle ==
    /\ pc = "idle"
    /\ metaFields = <<>>
    /\ columnMap = NULL
    /\ parsedData = <<>>
    /\ recordList = <<>>
    /\ warnings = <<>>
    /\ error = NULL
    /\ policyArg = NULL
    /\ dashboard = NULL
    /\ linesRead = 0
    /\ sourceLines = <<>>

\* the overrides the fee settings panel can save in the model
PanelItems == {"Trip price"}
PanelPcts == {50}

\* FeeSettingsPanel.handleSave: the overrides are the draft values that
\* differ from the defaults
SaveFeeSettings ==
    /\ \E item \in PanelItems, pct \in PanelPcts :
          /\ pct # DEFAULT_OWNER_PCT[item]
          /\ feeSettings' = (item :> pct)
    /\ UNCHANGED <<pc, metaFields, columnMap, parsedData, recordList, warnings, error, policyArg,
                   dashboard, linesRead, sourceLines>>

\* FeeSettingsPanel.handleReset
ResetFeeSettings ==
    /\ feeSettings' = NoOverrides
    /\ UNCHANGED <<pc, metaFields, columnMap, parsedData, recordList, warnings, error, policyArg,
                   dashboard, linesRead, sourceLines>>

\* handleFile calls parseTuroCsv(file, toSplitRatios(feeSettings)); the file
\* is read, its header row must not be empty and buildColumnMap must resolve
\* the required columns.  parseTuroCsv declares the file parameter only: the
\* policy is kept in policyArg as passed, and nothing in the parse reads it.
StartParse ==
    /\ pc = "idle"
    /\ \E headers \in HeaderRows :
          /\ metaFields' = headers
          /\ policyArg' = Some(toSplitRatios(feeSettings))
          /\ linesRead' = (IF Len(headers) = 0 THEN 0 ELSE 1)
          /\ IF Len(headers) = 0
                THEN /\ error' = Some("CSV appears empty or missing a header row.")
                     /\ pc' = "failed"
                     /\ columnMap' = NULL
             ELSE IF buildColumnMap(headers).threw
                THEN /\ error' = Some(buildColumnMap(headers).message)
                     /\ pc' = "failed"
                     /\ columnMap' = NULL
             ELSE /\ error' = NULL
                  /\ pc' = "rows"
                  /\ columnMap' = Some(buildColumnMap(headers))
    /\ UNCHANGED <<parsedData, recordList, warnings, feeSettings, dashboard, sourceLines>>

\* Papa.parse with skipEmptyLines: true: an empty line of the file is read
\* and left out of parsed.data
SkipEmptyLine ==
    /\ pc = "rows"
    /\ linesRead - 1 - Len(parsedData) < MaxBlankLines
    /\ linesRead' = linesRead + 1
    /\ UNCHANGED <<pc, metaFields, columnMap, parsedData, recordList, warnings, error, feeSettings,
                   policyArg, dashboard, sourceLines>>

\* one call of the forEach callback: the next data row of the file
ParseNextRow ==
    /\ pc = "rows"
    /\ Len(parsedData) < MaxRows
    /\ \E raw \in RowPool(metaFields) :
          LET rowNumber == Len(parsedData) + 2
              parsed == parseRow(raw, rowNumber, columnMap[1])
          IN  /\ parsedData' = Append(parsedData, raw)
              /\ linesRead' = linesRead + 1
              /\ sourceLines' = Append(sourceLines, linesRead + 1)
              /\ IF parsed.threw
                    THEN /\ warnings' = Append(warnings, parsed.message)
                         /\ UNCHANGED recordList
                    ELSE /\ recordList' = Append(recordList, parsed.record)
                         /\ UNCHANGED warnings
    /\ UNCHANGED <<pc, metaFields, columnMap, error, feeSettings, policyArg, dashboard>>

\* a variant without the check for zero records
FinishParseAllowEmpty ==
    /\ pc = "rows"
    /\ recordList' = backfillOwnersFromKnownVehicles(recordList)
    /\ warnings' = warnings \o OwnerWarnings(recordList')
    /\ pc' = "done"
    /\ UNCHANGED <<error, metaFields, columnMap, parsedData, feeSettings, policyArg, dashboard,
                   linesRead, sourceLines>>

\* after the last row: no record is an error; otherwise the owners are
\* backfilled, the rows still without an owner are warned about and the
\* result is returned
FinishParse ==
    /\ pc = "rows"
    /\ IF Len(recordList) = 0
          THEN /\ error' = Some("No valid rows found after parsing.")
               /\ pc' = "failed"
               /\ UNCHANGED <<recordList, warnings>>
          ELSE /\ recordList' = backfillOwnersFromKnownVehicles(recordList)
               /\ warnings' = warnings \o OwnerWarnings(recordList')
               /\ pc' = "done"
               /\ UNCHANGED error
    /\ UNCHANGED <<metaFields, columnMap, parsedData, feeSettings, policyArg, dashboard,
                   linesRead, sourceLines>>

\* the dashboard of the parsed records: of all of them, or of the completed
\* ones; no dashboard when there is no record to show
ShowDashboard ==
    /\ pc = "done"
    /\ \E completedOnly \in BOOLEAN :
          LET shown == IF completedOnly THEN FilterCompleted(recordList) ELSE recordList
          IN  dashboard' = IF Len(shown) = 0
                               THEN NULL
                               ELSE Some([completedOnly |-> completedOnly,
                                          data |-> buildDashboardData(shown)])
    /\ UNCHANGED <<pc, metaFields, columnMap, parsedData, recordList, warnings, error, feeSettings,
                   policyArg, linesRead, sourceLines>>

\* the next file is dropped on the upload zone
NextFile ==
    /\ pc \in {"done", "failed"}
    /\ pc' = "idle"
    /\ metaFields' = <<>>
    /\ columnMap' = NULL
    /\ parsedData' = <<>>
    /\ recordList' = <<>>
    /\ warnings' = <<>>
    /\ error' = NULL
    /\ policyArg' = NULL
    /\ dashboard' = NULL
    /\ linesRead' = 0
    /\ sourceLines' = <<>>
    /\ UNCHANGED feeSettings

parseVars == <<pc, metaFields, columnMap, parsedData, recordList, warnings, error,
               feeSettings, policyArg, dashboard, linesRead, sourceLines>>
pureVars == <<moneyIn, moneyOut, settingsIn, policyOut, rowFields, rowIn, rowOut,
              aggIn, aggOut, batchIn, batchOut>>

MoneyIdle == moneyIn = NULL /\ moneyOut = NULL
PolicyIdle == settingsIn = NoOverrides /\ policyOut = NULL
RowIdle == rowFields = <<>> /\ rowIn = <<>> /\ rowOut = NULL
AggIdle == aggIn = <<>> /\ aggOut = NULL
BackfillIdle == batchIn = <<>> /\ batchOut = NULL

PureIdle == MoneyIdle /\ PolicyIdle /\ RowIdle /\ AggIdle /\ BackfillIdle

\* the body of the forEach callback of parseTuroCsv: the record is pushed,
\* or the message of what parseRow threw
pushParsed(parsed, rest) ==
    IF parsed.threw
        THEN [records |-> rest.records, warnings |-> <<parsed.message>> \o rest.warnings]
        ELSE [records |-> <<parsed.record>> \o rest.records, warnings |-> rest.warnings]

\* the forEach of parseTuroCsv over parsed.data from the row at index idx
\* (counted from 1) on: the records pushed and the warnings pushed
RECURSIVE parseRows(_, _, _)
parseRows(data, idx, map) ==
    IF idx > Len(data) THEN [records |-> <<>>, warnings |-> <<>>]
    ELSE pushParsed(parseRow(data[idx], idx + 1, map), parseRows(data, idx + 1, map))

\* the result returned: the backfilled records, and the warnings followed by
\* those about the rows left without an owner
returnParsed(normalizedRecords, rowWarnings) ==
    [threw |-> FALSE,
     records |-> normalizedRecords,
     warnings |-> rowWarnings \o OwnerWarnings(normalizedRecords)]

\* parseTuroCsv from buildColumnMap on
parseWithMap(data, map) ==
    IF map.threw
        THEN [threw |-> TRUE, message |-> map.message]
    ELSE IF Len(parseRows(data, 1, map).records) = 0
        THEN [threw |-> TRUE, message |-> "No valid rows found after parsing."]
    ELSE returnParsed(backfillOwnersFromKnownVehicles(parseRows(data, 1, map).records),
                      parseRows(data, 1, map).warnings)

\* parseTuroCsv(file) as one function of the header row and the data rows
\* Papa.parse delivers: what it returns, or the message of what it throws
parseTuroCsv(file) ==
    IF Len(file.fields) = 0
        THEN [threw |-> TRUE, message |-> "CSV appears empty or missing a header row."]
        ELSE parseWithMap(file.data, buildColumnMap(file.fields))

appVars == <<appRecords, appWarnings, lastFileName, isLoading, appError, info, calls>>
saveVars == <<uploadsTable, tripsTable, saves>>

\* the application as it is mounted: no record, no file, nothing loading
AppIdle ==
    /\ appRecords = <<>>
    /\ appWarnings = <<>>
    /\ lastFileName = NULL
    /\ isLoading = FALSE
    /\ appError = NULL
    /\ info = NULL
    /\ calls = <<>>

\* empty tables and no save under way
SaveIdle ==
    /\ uploadsTable = {}
    /\ tripsTable = {}
    /\ saves = <<>>

Init == ParseIdle /\ feeSettings = NoOverrides /\ AppIdle /\ SaveIdle /\ PureIdle

\* parseTuroCsv under the fee settings the application starts with
Next ==
    \/ StartParse /\ UNCHANGED <<pureVars, appVars, saveVars>>
    \/ SkipEmptyLine /\ UNCHANGED <<pureVars, appVars, saveVars>>
    \/ ParseNextRow /\ UNCHANGED <<pureVars, appVars, saveVars>>
    \/ FinishParse /\ UNCHANGED <<pureVars, appVars, saveVars>>
    \/ ShowDashboard /\ UNCHANGED <<pureVars, appVars, saveVars>>
    \/ NextFile /\ UNCHANGED <<pureVars, appVars, saveVars>>

Spec == Init /\ [][Next]_vars

\* the same with the fee settings panel
NextFee ==
    \/ SaveFeeSettings /\ UNCHANGED <<pureVars, appVars, saveVars>>
    \/ ResetFeeSettings /\ UNCHANGED <<pureVars, appVars, saveVars>>
    \/ StartParse /\ UNCHANGED <<pureVars, appVars, saveVars>>
    \/ SkipEmptyLine /\ UNCHANGED <<pureVars, appVars, saveVars>>
    \/ ParseNextRow /\ UNCHANGED <<pureVars, appVars, saveVars>>
    \/ FinishParse /\ UNCHANGED <<pureVars, appVars, saveVars>>
    \/ ShowDashboard /\ UNCHANGED <<pureVars, appVars, saveVars>>
    \/ NextFile /\ UNCHANGED <<pureVars, appVars, saveVars>>

SpecFee == Init /\ [][NextFee]_vars

(***************************************************************************)
(* parseMoneyCents as a function of its input.                             *)
(***************************************************************************)
CellAlphabet == {"$", " ", "(", ")", "-", ".", "1", "9"}

RECURSIVE StringsOfLen(_)
StringsOfLen(n) ==
    IF n = 0 THEN {""}
    ELSE {s \o c : s \in StringsOfLen(n - 1), c \in CellAlphabet}

MoneySamples ==
    {"$1,234.56", "(100.00)", "($45.00)", "0", "", "-", "12.344", "12.346",
     "-0.016", "-0.014", " $ 1,000 ", "(-5)", "1e3", "abc", "1.", ".5", "--1"}

MoneyInputs ==
    {NULL} \cup {Some(s) : s \in UNION {StringsOfLen(n) : n \in 0..MaxCellLen} \cup MoneySamples}

InitMoney ==
    /\ ParseIdle /\ feeSettings = NoOverrides /\ AppIdle /\ SaveIdle
    /\ moneyIn \in MoneyInputs
    /\ moneyOut = NULL
    /\ PolicyIdle /\ RowIdle /\ AggIdle /\ BackfillIdle

ApplyParseMoneyCents ==
    /\ moneyOut = NULL
    /\ moneyOut' = Some(parseMoneyCents(moneyIn))
    /\ UNCHANGED <<moneyIn, settingsIn, policyOut, rowFields, rowIn, rowOut,
                   aggIn, aggOut, batchIn, batchOut>>
    /\ UNCHANGED <<parseVars, appVars, saveVars>>

NextMoney == ApplyParseMoneyCents

SpecMoney == InitMoney /\ [][NextMoney]_vars

(***************************************************************************)
(* toSplitRatios as a function of the fee settings.                        *)
(***************************************************************************)
OverrideItems == {"Trip price", "Cleaning", "Excess distance"}
OverridePcts == {-1, 0, 33, 100, 101}

\* the overrides of some of the items, each with one of the percentages
OverrideChoices ==
    UNION {[items -> OverridePcts] : items \in SUBSET OverrideItems}

InitPolicy ==
    /\ ParseIdle /\ feeSettings = NoOverrides /\ AppIdle /\ SaveIdle
    /\ MoneyIdle
    /\ settingsIn \in OverrideChoices
    /\ policyOut = NULL
    /\ RowIdle /\ AggIdle /\ BackfillIdle

ApplyToSplitRatios ==
    /\ policyOut = NULL
    /\ policyOut' = Some(toSplitRatios(settingsIn))
    /\ UNCHANGED <<moneyIn, moneyOut, settingsIn, rowFields, rowIn, rowOut,
                   aggIn, aggOut, batchIn, batchOut>>
    /\ UNCHANGED <<parseVars, appVars, saveVars>>

NextPolicy == ApplyToSplitRatios

SpecPolicy == InitPolicy /\ [][NextPolicy]_vars

(***************************************************************************)
(* parseRow as a function of the header row and the data row.              *)
(***************************************************************************)
WideRows ==
    { ("Trip start" :> start) @@ ("Trip end" :> end) @@ ("Vehicle name" :> vehicleName) @@
      ("Vehicle" :> vehicle) @@ ("Trip price" :> price) @@ ("Cleaning" :> cleaning) @@
      ("Excess distance" :> distance) @@ ("Delivery" :> delivery) @@ ("Total earnings" :> total) :
        start \in {DateA, "soon"},
        end \in {DateB, ""},
        vehicleName \in {"Toyota Sienna 2024", ""},
        vehicle \in {"Ana's Toyota Sienna 2024", ""},
        price \in {"$10.00", "$0.05", "-$0.05", "abc"},
        cleaning \in {"$20.00", "", "n/a"},
        distance \in {"7.77", "(3.33)"},
        delivery \in {"0.15", "-0.15", "x"},
        total \in {"$30.00", ""} }

\* a row of a file whose header row is fields: its cells under those headers
RowUnder(fields, row) == [h \in {fields[i] : i \in 1..Len(fields)} |-> row[h]]

InitRow ==
    /\ ParseIdle /\ feeSettings = NoOverrides /\ AppIdle /\ SaveIdle
    /\ MoneyIdle /\ PolicyIdle /\ AggIdle /\ BackfillIdle
    /\ rowFields \in {HWide, HNarrow}
    /\ rowIn \in {RowUnder(rowFields, row) : row \in WideRows}
    /\ rowOut = NULL

ApplyParseRow ==
    /\ rowOut = NULL
    /\ rowOut' = Some(parseRow(rowIn, 2, ColumnMaps[rowFields]))
    /\ UNCHANGED <<moneyIn, moneyOut, settingsIn, policyOut, rowFields, rowIn,
                   aggIn, aggOut, batchIn, batchOut>>
    /\ UNCHANGED <<parseVars, appVars, saveVars>>

NextRow == ApplyParseRow

SpecRow == InitRow /\ [][NextRow]_vars

(***************************************************************************)
(* buildDashboardData as a function of the record list.                    *)
(***************************************************************************)
MaxTrips == 3       \* the most records handed to buildDashboardData

TripDate(year, month, day, hour) == [year |-> year, month |-> month, day |-> day, hour |-> hour]

Dec28 == TripDate(2024, 12, 28, 9)
Jan03 == TripDate(2025, 1, 3, 9)
Jan05 == TripDate(2025, 1, 5, 9)
Jan30 == TripDate(2025, 1, 30, 10)
Feb02 == TripDate(2025, 2, 2, 11)
Mar02 == TripDate(2025, 3, 2, 9)

TripRecord(rowNumber, start, end, vehicleName, ownerName, gross, net, lr, owner) ==
    [rowNumber     |-> rowNumber,
     tripStart     |-> start,
     tripEnd       |-> end,
     vehicleName   |-> vehicleName,
     ownerName     |-> ownerName,
     grossRevenue  |-> gross,
     netEarnings   |-> net,
     addonsRevenue |-> NULL,
     lrShare       |-> lr,
     ownerShare    |-> owner,
     isCancelled   |-> FALSE,
     status        |-> Some("Completed")]

\* records as parseRow returns them: a trip that ends in the month after its
\* start, trips within a month, a trip whose end precedes its start, trips
\* longer than the month they end in, a trip across the turn of the year and
\* a trip of no duration
TripPool ==
    { TripRecord(2, Jan30, Feb02, "Kia", "Al", 10000, Some(12000), 3000, 7000),
      TripRecord(3, Jan03, Jan05, "Kia", "Bo", 5000, NULL, 1500, 3500),
      TripRecord(4, Feb02, Jan30, "VW", "Al", 2005, NULL, 602, 1403),
      TripRecord(5, Jan03, Mar02, "Kia", "Al", 30000, Some(25000), 9000, 21000),
      TripRecord(6, Dec28, Jan03, "VW", "Bo", 7, NULL, 2, 5),
      TripRecord(7, Jan03, Feb02, "VW", "Unknown owner", 8000, NULL, 2400, 5600),
      TripRecord(8, Jan05, Jan05, "VW", "Bo", 4000, Some(3000), 1200, 2800) }

TripLists == UNION {[1..n -> TripPool] : n \in 0..MaxTrips}

InitAgg ==
    /\ ParseIdle /\ feeSettings = NoOverrides /\ AppIdle /\ SaveIdle
    /\ MoneyIdle /\ PolicyIdle /\ RowIdle /\ BackfillIdle
    /\ aggIn \in TripLists
    /\ aggOut = NULL

ApplyBuildDashboardData ==
    /\ aggOut = NULL
    /\ aggOut' = Some(buildDashboardData(aggIn))
    /\ UNCHANGED <<moneyIn, moneyOut, settingsIn, policyOut, rowFields, rowIn, rowOut,
                   aggIn, batchIn, batchOut>>
    /\ UNCHANGED <<parseVars, appVars, saveVars>>

NextAgg == ApplyBuildDashboardData

SpecAgg == InitAgg /\ [][NextAgg]_vars

(***************************************************************************)
(* backfillOwnersFromKnownVehicles as a function of the record list.       *)
(***************************************************************************)
MaxBatch == 4       \* the most records handed to the backfill

\* the vehicle and the owner of the records: two spellings of one vehicle,
\* another vehicle, and a vehicle name without a Latin letter or digit
\* ("??"), whose normalized key is empty
BatchPool ==
    { <<"Kia", "Al">>, <<"Kia", "Bo">>, <<"Kia", "Unknown owner">>,
      <<"kia-", "Al">>, <<"kia-", "Unknown owner">>,
      <<"VW", "Bo">>, <<"VW", "Unknown owner">>,
      <<"??", "Al">>, <<"??", "Bo">>, <<"??", "Unknown owner">> }

\* the records of rows 2, 3, ... of a file with these vehicles and owners
BatchOf(pairs) ==
    [i \in 1..Len(pairs) |->
        TripRecord(i + 1, Jan03, Jan05, pairs[i][1], pairs[i][2], 10000, NULL, 3000, 7000)]

Batches == {BatchOf(pairs) : pairs \in UNION {[1..n -> BatchPool] : n \in 1..MaxBatch}}

InitBackfill ==
    /\ ParseIdle /\ feeSettings = NoOverrides /\ AppIdle /\ SaveIdle
    /\ MoneyIdle /\ PolicyIdle /\ RowIdle /\ AggIdle
    /\ batchIn \in Batches
    /\ batchOut = NULL

ApplyBackfill ==
    /\ batchOut = NULL
    /\ batchOut' = Some(backfillOwnersFromKnownVehicles(batchIn))
    /\ UNCHANGED <<moneyIn, moneyOut, settingsIn, policyOut, rowFields, rowIn, rowOut,
                   aggIn, aggOut, batchIn>>
    /\ UNCHANGED <<parseVars, appVars, saveVars>>

NextBackfill == ApplyBackfill

SpecBackfill == InitBackfill /\ [][NextBackfill]_vars

(***************************************************************************)
(* parseRow as a function of the owner and vehicle columns.                *)
(***************************************************************************)
\* the clean vehicle name and the raw listing title of a row
VehicleCells ==
    { <<"Kia Rio", "Bob - Kia Rio">>, <<"Kia Rio", "Kia Rio">>, <<"Kia Rio", "">>,
      <<"", "Mia's Kia Rio">>, <<"", "Joe Kia Rio">>,
      <<"Al's Kia Rio", "Bob Al's Kia Rio">> }

OwnerColumnRows ==
    { ("Trip start" :> DateA) @@ ("Trip end" :> DateB) @@ ("Trip price" :> "$10.00") @@
      ("Vehicle name" :> vehicle[1]) @@ ("Vehicle" :> vehicle[2]) @@
      ("Owner" :> owner) @@ ("Owner first name" :> first) @@ ("Owner last name" :> last) :
        vehicle \in VehicleCells,
        owner \in {"Zed", " ", ""},
        first \in {"Ana", ""},
        last \in {" Lee", ""} }

InitOwner ==
    /\ ParseIdle /\ feeSettings = NoOverrides /\ AppIdle /\ SaveIdle
    /\ MoneyIdle /\ PolicyIdle /\ AggIdle /\ BackfillIdle
    /\ rowFields \in OwnerHeaderRows
    /\ rowIn \in {RowUnder(rowFields, row) : row \in OwnerColumnRows}
    /\ rowOut = NULL

SpecOwner == InitOwner /\ [][NextRow]_vars

(***************************************************************************)
(* parseRow as a function of the status and cancelled columns.             *)
(***************************************************************************)
FlagCells == {"TRUE", "Yes", "1", "False", "NO", "0", "", " yes", "maybe"}

StatusCells == {"Completed", "Cancelled", "Canceled", "Guest CANCELLATION", ""}

CancelColumnRows ==
    { ("Trip start" :> DateA) @@ ("Trip end" :> DateB) @@ ("Trip price" :> "$10.00") @@
      ("Vehicle name" :> vehicleName) @@ ("Trip status" :> status) @@ ("Cancelled" :> flag) :
        vehicleName \in {"Kia Rio", "VW Golf"},
        status \in StatusCells,
        flag \in FlagCells }

InitCancel ==
    /\ ParseIdle /\ feeSettings = NoOverrides /\ AppIdle /\ SaveIdle
    /\ MoneyIdle /\ PolicyIdle /\ AggIdle /\ BackfillIdle
    /\ rowFields \in CancelHeaderRows
    /\ rowIn \in {RowUnder(rowFields, row) : row \in CancelColumnRows}
    /\ rowOut = NULL

SpecCancel == InitCancel /\ [][NextRow]_vars

(***************************************************************************)
(* Properties of parseRow (SpecRow).                                       *)
(***************************************************************************)

\* parseRow has run and returned a record
RowParsed == rowOut # NULL /\ ~rowOut[1].threw

HeaderSet(fields) == {fields[i] : i \in 1..Len(fields)}

\* the headers that occur in the files of the model
ModelHeaders == UNION {HeaderSet(fields) : fields \in HeaderRows \cup {HWide, HNarrow}}

\* the line items of the policy a header names
HeaderItems ==
    [h \in ModelHeaders |-> {item \in SplitItemSet : normalizeHeader(item) = normalizeHeader(h)}]

\* the headers of a file that name a line item of the policy
LineItemHeaders(fields) == {h \in HeaderSet(fields) : HeaderItems[h] # {}}

\* a cell that is missing, empty or does not read as money
NotMoney(raw, h) == h \notin DOMAIN raw \/ parseMoneyCents(Some(raw[h])) = NULL

\* the cents a cell reads as; 0 when it does not read as money
CellCents(raw, h) == IF NotMoney(raw, h) THEN 0 ELSE parseMoneyCents(Some(raw[h]))[1]

RECURSIVE SumCells(_, _)
SumCells(raw, hs) ==
    IF hs = {} THEN 0
    ELSE LET h == CHOOSE x \in hs : TRUE
         IN  CellCents(raw, h) + SumCells(raw, hs \ {h})

\* the cents of a line item in a row of a file with the given headers
ItemCents(raw, fields, item) ==
    SumCells(raw, {h \in HeaderSet(fields) : item \in HeaderItems[h]})

RECURSIVE SumLrUpTo(_, _)
SumLrUpTo(steps, n) == IF n = 0 THEN 0 ELSE steps[n].lrPartCents + SumLrUpTo(steps, n - 1)

RECURSIVE SumOwnerUpTo(_, _)
SumOwnerUpTo(steps, n) == IF n = 0 THEN 0 ELSE steps[n].ownerPartCents + SumOwnerUpTo(steps, n - 1)

\* C1 (split completeness): for every parsed row and every line item with
\* parsed amount A cents, whatever its sign and ratio, the two parts parseRow
\* computed sum to A exactly; so the row's LR share plus owner share is the
\* sum of the parsed cents of the line-item columns present in the file.
SplitCompleteness ==
    RowParsed =>
        /\ \A i \in DOMAIN rowOut[1].steps :
              rowOut[1].steps[i].lrPartCents + rowOut[1].steps[i].ownerPartCents
                  = rowOut[1].steps[i].amountCents
        /\ rowOut[1].record.lrShare + rowOut[1].record.ownerShare
              = SumCells(rowIn, LineItemHeaders(rowFields))

\* a parsed row with a negative amount on a rounding tie, a positive amount
\* that does not divide evenly and a line item allocated wholly to one side
SplitCompletenessWitness ==
    /\ RowParsed
    /\ \E i \in DOMAIN rowOut[1].steps :
          /\ rowOut[1].steps[i].amountCents = -5
          /\ rowOut[1].steps[i].lrPartCents = -1
          /\ rowOut[1].steps[i].ownerPartCents = -4
    /\ \E i \in DOMAIN rowOut[1].steps :
          /\ rowOut[1].steps[i].amountCents = 15
          /\ rowOut[1].steps[i].lrPartCents # 0
          /\ rowOut[1].steps[i].ownerPartCents # 0
    /\ \E i \in DOMAIN rowOut[1].steps :
          /\ rowOut[1].steps[i].amountCents = 2000
          /\ rowOut[1].steps[i].ownerPartCents = 0

\* C7 (allocation formula): for every parsed row, each line item of the
\* policy, with amount A cents and LR ratio lrBps, gets lrPartCents = the
\* integer nearest to A * lrBps / 10000 (a tie going up, as Math.round does)
\* and ownerPartCents = A - lrPartCents; the row's shares are the sums of
\* the parts over all line items; 1000 cents at LR 30% gives 300 and 700.
AllocationFormula ==
    RowParsed =>
        LET steps == rowOut[1].steps
        IN  /\ Len(steps) = Len(SplitItems)
            /\ \A i \in 1..Len(steps) :
                  LET A   == ItemCents(rowIn, rowFields, SplitItems[i])
                      bps == splitRatios[SplitItems[i]].lrBps
                      lr  == steps[i].lrPartCents
                  IN  /\ steps[i].item = SplitItems[i]
                      /\ steps[i].amountCents = A
                      /\ -10000 < 2 * (10000 * lr - A * bps)
                      /\ 2 * (10000 * lr - A * bps) <= 10000
                      /\ steps[i].ownerPartCents = A - lr
                      /\ (A = 1000 /\ bps = 3000) =>
                            (lr = 300 /\ steps[i].ownerPartCents = 700)
            /\ rowOut[1].record.lrShare = SumLrUpTo(steps, Len(steps))
            /\ rowOut[1].record.ownerShare = SumOwnerUpTo(steps, Len(steps))

\* a parsed row whose trip price of 1000 cents is split 300 / 700 and whose
\* delivery amount of 15 cents sits on a tie that is rounded up
AllocationFormulaWitness ==
    /\ RowParsed
    /\ \E i \in DOMAIN rowOut[1].steps :
          /\ rowOut[1].steps[i].item = "Trip price"
          /\ rowOut[1].steps[i].amountCents = 1000
          /\ rowOut[1].steps[i].lrPartCents = 300
          /\ rowOut[1].steps[i].ownerPartCents = 700
    /\ \E i \in DOMAIN rowOut[1].steps :
          /\ rowOut[1].steps[i].item = "Delivery"
          /\ rowOut[1].steps[i].amountCents = 15
          /\ 2 * (10000 * rowOut[1].steps[i].lrPartCents
                    - 15 * splitRatios["Delivery"].lrBps) = 10000
    /\ rowOut[1].record.lrShare > 300

\* the outcome of parseRow is the same whether the cell under h is as it is
\* or reads as money
SameOutcomeWithMoney(h) ==
    rowOut[1].threw = parseRow([rowIn EXCEPT ![h] = "0"], 2, ColumnMaps[rowFields]).threw

\* an absent, empty or unparseable line-item cell adds nothing to the shares
NotMoneyAddsNothing ==
    RowParsed =>
        \A i \in DOMAIN rowOut[1].steps :
            (\A h \in HeaderSet(rowFields) :
                 rowOut[1].steps[i].item \in HeaderItems[h] => NotMoney(rowIn, h))
            => /\ rowOut[1].steps[i].lrPartCents = 0
               /\ rowOut[1].steps[i].ownerPartCents = 0

\* C10 as stated (allocation never errors): a line item whose column is
\* absent, or whose cell is empty or not parseable as money, adds 0 cents to
\* both shares and never causes the row to be rejected or warned about.
AllocationNeverErrors ==
    /\ NotMoneyAddsNothing
    /\ rowOut # NULL =>
          \A h \in LineItemHeaders(rowFields) : NotMoney(rowIn, h) => SameOutcomeWithMoney(h)

\* C10 as amended: a line item whose column is absent, or whose cell is empty
\* or not parseable as money, adds 0 cents to both shares; unless its column
\* is the one resolved as gross revenue, it never causes the row to be
\* rejected or warned about.  (An empty or unparseable cell in the gross
\* revenue column, which the Trip price column is whenever it is present,
\* rejects the row.)
AllocationNeverErrorsButGross ==
    /\ NotMoneyAddsNothing
    /\ rowOut # NULL =>
          \A h \in LineItemHeaders(rowFields) \ {ColumnMaps[rowFields].grossRevenue} :
              NotMoney(rowIn, h) => SameOutcomeWithMoney(h)

\* a parsed row with an unparseable cleaning cell, an unparseable delivery
\* cell and line items that have no column
AllocationNeverErrorsWitness ==
    /\ RowParsed
    /\ rowFields = HWide
    /\ rowIn["Cleaning"] = "n/a"
    /\ rowIn["Delivery"] = "x"
    /\ \E i \in DOMAIN rowOut[1].steps :
          /\ rowOut[1].steps[i].item = "Cleaning"
          /\ rowOut[1].steps[i].lrPartCents = 0
          /\ rowOut[1].steps[i].ownerPartCents = 0
    /\ rowOut[1].record.lrShare + rowOut[1].record.ownerShare
          = CellCents(rowIn, "Trip price") + CellCents(rowIn, "Excess distance")

(***************************************************************************)
(* Properties of parseTuroCsv and the dashboard (Spec, SpecFee).           *)
(***************************************************************************)

\* the data row a record was parsed from
RowOf(record) == parsedData[record.rowNumber - 1]

\* a cell that is missing or is not one of the dates the platform parses
NotDate(raw, h) == h \notin DOMAIN raw \/ raw[h] \notin DOMAIN KnownDates

\* the text of the cell under an optional column, trimmed; "" when there is
\* no such column or no such cell
TrimmedCell(raw, column) ==
    IF column = NULL THEN ""
    ELSE IF column[1] \notin DOMAIN raw THEN ""
    ELSE Trim(raw[column[1]])

\* what makes a data row unusable under the resolved columns
RowRejectable(raw, map) ==
    \/ NotDate(raw, map.tripStart)
    \/ NotDate(raw, map.tripEnd)
    \/ NotMoney(raw, map.grossRevenue)
    \/ (TrimmedCell(raw, map.vehicleName) = "" /\ TrimmedCell(raw, map.vehicleRaw) = "")

\* the warnings that report the rejection of the row numbered n
RejectionWarnings(n) ==
    { "Row " \o ToString(n) \o ": invalid date or revenue format.",
      "Row " \o ToString(n) \o ": missing vehicle name." }

HasAlias(headers, names) ==
    \E i \in 1..Len(headers), j \in 1..Len(names) : normalizeHeader(headers[i]) = names[j]

\* the labels of the required columns no header stands for
MissingLabels(headers) ==
    (IF HasAlias(headers, aliases.tripStart) THEN <<>> ELSE <<"Trip start date">>)
    \o (IF HasAlias(headers, aliases.tripEnd) THEN <<>> ELSE <<"Trip end date">>)
    \o (IF HasAlias(headers, aliases.grossRevenue) THEN <<>> ELSE <<"Gross revenue">>)

\* C3 (header precondition): when trip start, trip end or gross revenue
\* cannot be resolved from the header row, parseTuroCsv fails the whole parse,
\* with no record and no warning, and the message names exactly the missing
\* ones, comma-joined in that order, by the labels 'Trip start date', 'Trip end
\* date', 'Gross revenue' (a header row with 'Total earnings' but no gross
\* revenue alias fails with 'Missing required column(s): Gross revenue.');
\* when all three resolve this error is never raised.
HeaderPrecondition ==
    (pc # "idle" /\ metaFields # <<>>) =>
        LET missing == MissingLabels(metaFields)
        IN  /\ missing # <<>> =>
                  /\ pc = "failed"
                  /\ error = Some("Missing required column(s): " \o Join(missing, ", ") \o ".")
                  /\ recordList = <<>> /\ warnings = <<>> /\ parsedData = <<>>
            /\ missing = <<>> =>
                  (error = NULL \/ error = Some("No valid rows found after parsing."))
            /\ metaFields = <<"Trip start", "Trip end", "Vehicle name", "Trip status", "Total earnings">>
                  => error = Some("Missing required column(s): Gross revenue.")
            /\ metaFields = <<"Vehicle name", "Trip status", "Total earnings">>
                  => error = Some("Missing required column(s): Trip start date, Trip end date, Gross revenue.")
            /\ metaFields = <<"Trip end", "Vehicle name", "Trip status", "Total earnings">>
                  => error = Some("Missing required column(s): Trip start date, Gross revenue.")

\* the parse of a file with a 'Total earnings' column and no gross revenue
\* column has failed
HeaderPreconditionWitness ==
    /\ pc = "failed"
    /\ \E i \in 1..Len(metaFields) : metaFields[i] = "Total earnings"
    /\ HasAlias(metaFields, aliases.tripStart)
    /\ HasAlias(metaFields, aliases.tripEnd)
    /\ error = Some("Missing required column(s): Gross revenue.")
    /\ recordList = <<>>

\* C4 (all rows rejected): when the required headers resolve but every data
\* row is rejected, or there is no data row, parseTuroCsv fails with 'No
\* valid rows found after parsing.' and returns no empty record list; it
\* returns only with at least one record.
AllRowsRejectedFails ==
    /\ pc = "done" => (Len(recordList) >= 1 /\ error = NULL)
    /\ (pc = "failed" /\ columnMap # NULL) =>
          /\ error = Some("No valid rows found after parsing.")
          /\ recordList = <<>>
          /\ \A i \in 1..Len(parsedData) : RowRejectable(parsedData[i], columnMap[1])
    /\ error = Some("No valid rows found after parsing.") =>
          (pc = "failed" /\ MissingLabels(metaFields) = <<>>)

\* the parse of a file whose two data rows were both rejected has failed
AllRowsRejectedFailsWitness ==
    /\ pc = "failed"
    /\ columnMap # NULL
    /\ Len(parsedData) = 2
    /\ Len(warnings) = 2
    /\ error = Some("No valid rows found after parsing.")

\* the records the dashboard was built from
ShownRecords ==
    IF dashboard[1].completedOnly THEN FilterCompleted(recordList) ELSE recordList

\* the total earnings the cells of a row stand for: the net earnings cell
\* when there is one that reads as money, else the gross revenue cell
RowTotalCents(raw, map) ==
    IF map.netEarnings # NULL /\ ~NotMoney(raw, map.netEarnings[1])
        THEN CellCents(raw, map.netEarnings[1])
        ELSE CellCents(raw, map.grossRevenue)

RECURSIVE SumLineItemCells(_)
SumLineItemCells(records) ==
    IF Len(records) = 0 THEN 0
    ELSE SumCells(RowOf(records[1]), LineItemHeaders(metaFields)) + SumLineItemCells(Tail(records))

RECURSIVE SumRowTotals(_)
SumRowTotals(records) ==
    IF Len(records) = 0 THEN 0
    ELSE RowTotalCents(RowOf(records[1]), columnMap[1]) + SumRowTotals(Tail(records))

\* lrShare + ownerShare - totalEarnings of the dashboard, in cents
ReconciliationGap ==
    dashboard[1].data.metrics.lrShare + dashboard[1].data.metrics.ownerShare
        - dashboard[1].data.metrics.totalEarnings

RECURSIVE SumLrUnder(_, _, _)
SumLrUnder(policy, raw, items) ==
    IF items = {} THEN 0
    ELSE LET item == CHOOSE x \in items : TRUE
         IN  MathRoundDiv(ItemCents(raw, metaFields, item) * policy[item].lrBps, 10000)
             + SumLrUnder(policy, raw, items \ {item})

\* C8 (policy override): parseTuroCsv splits by the policy its caller hands
\* it: a line item the caller gave the owner percentage p is split with
\* ownerBps = 100 * p and lrBps = 10000 - 100 * p, every other line item by
\* the default table.
PolicyOverride ==
    policyArg # NULL =>
        \A k \in 1..Len(recordList) :
            /\ recordList[k].lrShare = SumLrUnder(policyArg[1], RowOf(recordList[k]), SplitItemSet)
            /\ recordList[k].ownerShare
                  = SumCells(RowOf(recordList[k]), LineItemHeaders(metaFields))
                      - SumLrUnder(policyArg[1], RowOf(recordList[k]), SplitItemSet)

(***************************************************************************)
(* Properties of parseMoneyCents (SpecMoney).                              *)
(***************************************************************************)

\* one or more digits and nothing else
OnlyDigits(t) == Len(t) > 0 /\ \A i \in 1..Len(t) : Ch(t, i) \in Digits

\* an optional minus, digits, and optionally a point followed by digits
IsDecimal(t) ==
    LET body == IF Len(t) > 0 /\ Ch(t, 1) = "-" THEN Tail(t) ELSE t
    IN  \E k \in 1..Len(body) :
            /\ OnlyDigits(SubSeq(body, 1, k))
            /\ \/ k = Len(body)
               \/ /\ Ch(body, k + 1) = "."
                  /\ OnlyDigits(SubSeq(body, k + 2, Len(body)))

\* the text without '$', ',' and whitespace, a text wholly wrapped in
\* parentheses standing for the negative of what it wraps
Unwrapped(s) ==
    LET t == RemoveChars(s, {"$", ","} \cup Whitespace)
    IN  IF Len(t) >= 2 /\ Ch(t, 1) = "(" /\ Ch(t, Len(t)) = ")"
            THEN "-" \o SubSeq(t, 2, Len(t) - 1)
            ELSE t

\* c is round(v * 100) for the decimal t that stands for v: with v = n / d,
\* c is the integer nearest to 100 * n / d, a tie going up
IsRoundedCents(c, t) ==
    LET neg  == Ch(t, 1) = "-"
        body == IF neg THEN Tail(t) ELSE t
        dot  == IndexOfChar(body, ".")
        d    == Pow10(IF dot = 0 THEN 0 ELSE Len(body) - dot)
        n    == (IF neg THEN -1 ELSE 1) * DigitsValue(RemoveChars(body, {"."}))
    IN  /\ 0 - d < 2 * (c * d - 100 * n)
        /\ 2 * (c * d - 100 * n) <= d

\* C6 (money parsing): parseMoneyCents strips '$', ',' and whitespace, takes
\* a value wholly wrapped in parentheses as the negative of its content,
\* returns null for an undefined or empty cell, a lone '-' and anything that
\* is not an optional-minus decimal, and otherwise returns round(value * 100)
\* as integer cents: '$1,234.56' -> 123456, '(100.00)' -> -10000,
\* '($45.00)' -> -4500, '0' -> 0, '' -> null, '-' -> null.
MoneyParsing ==
    moneyOut # NULL =>
        /\ moneyIn = NULL => moneyOut[1] = NULL
        /\ moneyIn = Some("") => moneyOut[1] = NULL
        /\ moneyIn = Some("-") => moneyOut[1] = NULL
        /\ moneyIn = Some("$1,234.56") => moneyOut[1] = Some(123456)
        /\ moneyIn = Some("(100.00)") => moneyOut[1] = Some(-10000)
        /\ moneyIn = Some("($45.00)") => moneyOut[1] = Some(-4500)
        /\ moneyIn = Some("0") => moneyOut[1] = Some(0)
        /\ moneyIn # NULL =>
              IF IsDecimal(Unwrapped(moneyIn[1]))
                  THEN /\ moneyOut[1] # NULL
                       /\ IsRoundedCents(moneyOut[1][1], Unwrapped(moneyIn[1]))
                  ELSE moneyOut[1] = NULL

\* parseMoneyCents has read '($45.00)' as -4500 cents
MoneyParsingWitness ==
    /\ moneyIn = Some("($45.00)")
    /\ moneyOut = Some(Some(-4500))

(***************************************************************************)
(* Properties of the allocation policy (SpecPolicy).                       *)
(***************************************************************************)

\* C9 (policy well-formedness): in the default split table and in every
\* policy toSplitRatios makes of fee settings, ownerBps + lrBps = 10000 for
\* each line item; when every override is an integer in 0..100, ownerBps and
\* lrBps of every line item lie in 0..10000.
PolicyWellFormed ==
    /\ DOMAIN splitRatios = SplitItemSet
    /\ \A item \in SplitItemSet : splitRatios[item].ownerBps + splitRatios[item].lrBps = 10000
    /\ policyOut # NULL =>
          /\ DOMAIN policyOut[1] = SplitItemSet
          /\ \A item \in SplitItemSet :
                policyOut[1][item].ownerBps + policyOut[1][item].lrBps = 10000
          /\ (\A key \in DOMAIN settingsIn : settingsIn[key] \in 0..100) =>
                \A item \in SplitItemSet :
                    /\ policyOut[1][item].ownerBps \in 0..10000
                    /\ policyOut[1][item].lrBps \in 0..10000

\* toSplitRatios has made a policy of settings that override the trip price
\* with 33 percent and another line item with 100 percent
PolicyWellFormedWitness ==
    /\ policyOut # NULL
    /\ "Trip price" \in DOMAIN settingsIn
    /\ settingsIn["Trip price"] = 33
    /\ policyOut[1]["Trip price"] = [ownerBps |-> 3300, lrBps |-> 6700]
    /\ \E key \in DOMAIN settingsIn : settingsIn[key] = 100 /\ policyOut[1][key].lrBps = 0


(***************************************************************************)
(* Properties of buildDashboardData (SpecAgg).                             *)
(***************************************************************************)

\* buildDashboardData has run
Aggregated == aggOut # NULL

\* the sum of the amounts at the indices of a set
RECURSIVE SumAt(_, _)
SumAt(amounts, indices) ==
    IF indices = {} THEN 0
    ELSE LET i == CHOOSE i \in indices : TRUE
         IN  amounts[i] + SumAt(amounts, indices \ {i})

\* the months in which a record of the input starts or ends
MonthsTouched ==
    {monthKey(aggIn[i].tripStart) : i \in 1..Len(aggIn)}
        \cup {monthKey(aggIn[i].tripEnd) : i \in 1..Len(aggIn)}

\* the records of the input whose trip ends in the month
EndingIn(key) == {i \in 1..Len(aggIn) : monthKey(aggIn[i].tripEnd) = key}

\* the entries of a monthly series for the month
EntriesOf(series, key) == {j \in 1..Len(series) : series[j].month = monthLabel(key)}

TheEntryOf(series, key) == series[CHOOSE j \in EntriesOf(series, key) : TRUE]

\* C11: every record is accumulated in the bucket of the month its trip ends
\* in, and in no other: a month in which no trip ends has no entry in the
\* monthly series, even if trips start in it, and a month in which trips end
\* has one entry in each series, whose revenue is the sum of grossRevenue
\* over the records ending in it, whose shares are the sums of their lrShare
\* and ownerShare, and whose utilization is computed from the sum of their
\* booked days.
MonthlyGroupingKey ==
    Aggregated =>
        \A key \in MonthsTouched :
            LET data == aggOut[1]
                ending == EndingIn(key)
            IN  IF ending = {}
                    THEN /\ EntriesOf(data.monthlyRevenue, key) = {}
                         /\ EntriesOf(data.monthlyUtilization, key) = {}
                         /\ EntriesOf(data.monthlySplit, key) = {}
                    ELSE /\ Cardinality(EntriesOf(data.monthlyRevenue, key)) = 1
                         /\ Cardinality(EntriesOf(data.monthlyUtilization, key)) = 1
                         /\ Cardinality(EntriesOf(data.monthlySplit, key)) = 1
                         /\ TheEntryOf(data.monthlyRevenue, key).revenue =
                                SumAt([i \in 1..Len(aggIn) |-> aggIn[i].grossRevenue], ending)
                         /\ TheEntryOf(data.monthlySplit, key).lrShare =
                                SumAt([i \in 1..Len(aggIn) |-> aggIn[i].lrShare], ending)
                         /\ TheEntryOf(data.monthlySplit, key).ownerShare =
                                SumAt([i \in 1..Len(aggIn) |-> aggIn[i].ownerShare], ending)
                         /\ TheEntryOf(data.monthlyUtilization, key).utilizationPct =
                                monthUtilizationPct(
                                    SumAt([i \in 1..Len(aggIn) |->
                                              dayDiff(aggIn[i].tripStart, aggIn[i].tripEnd)], ending),
                                    daysInMonth(key[1], key[2] - 1)
                                        * Cardinality({aggIn[i].vehicleName : i \in ending}))

\* the dashboard of a trip that starts in one month and ends in the next,
\* together with a trip that ends in the month the first one starts in
MonthlyGroupingKeyWitness ==
    /\ Aggregated
    /\ \E i, j \in 1..Len(aggIn) :
          /\ KeyLess(monthKey(aggIn[i].tripStart), monthKey(aggIn[i].tripEnd))
          /\ monthKey(aggIn[j].tripEnd) = monthKey(aggIn[i].tripStart)


\* C12: every entry of monthlyUtilization has a utilizationPct between 0 and
\* 100 (here in tenths of a percent: between 0 and 1000), whatever the record
\* list: also with trips that end before they start and trips longer than
\* the capacity of the month they end in.
UtilizationBound ==
    Aggregated =>
        \A j \in 1..Len(aggOut[1].monthlyUtilization) :
            /\ aggOut[1].monthlyUtilization[j].utilizationPct >= 0
            /\ aggOut[1].monthlyUtilization[j].utilizationPct <= 1000

\* the dashboard of a list with a trip whose end precedes its start and a
\* month whose booked days exceed its capacity, reported as 100 percent
UtilizationBoundWitness ==
    /\ Aggregated
    /\ \E i \in 1..Len(aggIn) : TimeHours(aggIn[i].tripEnd) < TimeHours(aggIn[i].tripStart)
    /\ \E key \in MonthsTouched :
          /\ EndingIn(key) # {}
          /\ SumAt([i \in 1..Len(aggIn) |-> dayDiff(aggIn[i].tripStart, aggIn[i].tripEnd)],
                   EndingIn(key))
                > daysInMonth(key[1], key[2] - 1)
                    * Cardinality({aggIn[i].vehicleName : i \in EndingIn(key)})
          /\ TheEntryOf(aggOut[1].monthlyUtilization, key).utilizationPct = 1000


(***************************************************************************)
(* Properties of the owner backfill (SpecBackfill).                        *)
(***************************************************************************)

\* the backfill has run
Backfilled == batchOut # NULL

KnownOwnerRows(records) == {i \in 1..Len(records) : records[i].ownerName # "Unknown owner"}

\* all rows of the batch are rows of one vehicle, and exactly one of them
\* has a known owner
OneVehicleOneOwner ==
    /\ \A i, j \in 1..Len(batchIn) : batchIn[i].vehicleName = batchIn[j].vehicleName
    /\ Cardinality(KnownOwnerRows(batchIn)) = 1

TheKnownOwner == batchIn[CHOOSE i \in KnownOwnerRows(batchIn) : TRUE].ownerName

\* the name has a letter or a digit
HasLetterOrDigit(name) == LowerAlnum(name) # ""

KnownRowsNamed(name) ==
    {j \in KnownOwnerRows(batchIn) : batchIn[j].vehicleName = name}

\* the rows of the input with a known owner whose vehicle name has the same
\* letters and digits, whatever their case
KnownRowsKeyed(name) ==
    {j \in KnownOwnerRows(batchIn) : LowerAlnum(batchIn[j].vehicleName) = LowerAlnum(name)}

\* the rows of a set that name the owner
RowsOfOwner(rows, owner) == {j \in rows : batchIn[j].ownerName = owner}

SentinelRows == {i \in 1..Len(batchIn) : batchIn[i].ownerName = "Unknown owner"}

Permuted(records, p) == [i \in 1..Len(records) |-> records[p[i]]]

\* the totals of the vehicles of a list: its entries without the owner name,
\* in no order
VehicleTotals(list) == {[list[j] EXCEPT !.ownerName = ""] : j \in 1..Len(list)}

\* the aggregate values of the dashboard data: the scalar metrics, the entry
\* of every month and the totals of every vehicle
AggregateValues(data) ==
    [metrics            |-> data.metrics,
     monthlyRevenue     |-> data.monthlyRevenue,
     monthlyUtilization |-> data.monthlyUtilization,
     monthlySplit       |-> data.monthlySplit,
     vehicleBreakdown   |-> VehicleTotals(data.vehicleBreakdown),
     vehiclePerformance |-> VehicleTotals(data.vehiclePerformance)]

Amount(unit, cents) == [unit |-> unit, cents |-> cents]

\* cents / 100: the amount in decimal currency
ToCurrency(cents) == Amount("currency", cents)

\* the operands of lrShareCents += lrPartCents and ownerShareCents +=
\* ownerPartCents in the allocation loop of parseRow
RowSumOperands(steps) ==
    UNION {{Amount("cents", steps[k].lrPartCents), Amount("cents", steps[k].ownerPartCents)} :
              k \in 1..Len(steps)}

\* the amounts of the record parseRow returns: gross is parseMoney(...), that
\* is cents / 100, netEarnings likewise, lrShare is lrShareCents / 100 and
\* ownerShare is ownerShareCents / 100
RecordAmounts(record) ==
    [grossRevenue |-> ToCurrency(record.grossRevenue),
     netEarnings  |-> IF record.netEarnings = NULL THEN NULL
                      ELSE Some(ToCurrency(record.netEarnings[1])),
     lrShare      |-> ToCurrency(record.lrShare),
     ownerShare   |-> ToCurrency(record.ownerShare)]

\* the operands of the sums buildDashboardData takes overall, per month and
\* per vehicle: sum + row.grossRevenue, sum + row.lrShare, sum +
\* row.ownerShare, sum + (row.netEarnings ?? row.grossRevenue)
AggregationSumOperands(records) ==
    UNION {{RecordAmounts(records[i]).grossRevenue,
            RecordAmounts(records[i]).lrShare,
            RecordAmounts(records[i]).ownerShare,
            IF records[i].netEarnings = NULL
                THEN RecordAmounts(records[i]).grossRevenue
                ELSE RecordAmounts(records[i]).netEarnings[1]} : i \in 1..Len(records)}

\* C16: across parsing and aggregation every sum (per row, per month, per
\* vehicle, overall) is taken over integer cents, none over amounts already
\* converted to decimal currency.
CentsOnlyAccounting ==
    dashboard # NULL =>
        /\ \A k \in 1..Len(parsedData) :
              LET parsed == parseRow(parsedData[k], k + 1, columnMap[1])
              IN  ~parsed.threw =>
                      \A operand \in RowSumOperands(parsed.steps) : operand.unit = "cents"
        /\ \A operand \in AggregationSumOperands(ShownRecords) : operand.unit = "cents"


(***************************************************************************)
(* Properties of the owner resolution (SpecOwner).                         *)
(***************************************************************************)

\* the trimmed cell of the row under the header; empty when the file has no
\* such column
TrimmedUnder(header) == IF header \in DOMAIN rowIn THEN Trim(rowIn[header]) ELSE ""

Resolved(header) == header \in HeaderSet(rowFields)

\* the first and the last name, those that are not empty, joined by a space
NameOfParts ==
    Trim(Join(FilterNonEmpty(<<TrimmedUnder("Owner first name"),
                               TrimmedUnder("Owner last name")>>), " "))

\* the prefix the raw vehicle column has before the clean vehicle name, if
\* both cells are filled and there is one
NameOfVehicleColumns ==
    IF TrimmedUnder("Vehicle name") # "" /\ TrimmedUnder("Vehicle") # ""
        THEN OrElse(extractOwnerFromVehicleColumns(TrimmedUnder("Vehicle"),
                                                   TrimmedUnder("Vehicle name")), NULL)
        ELSE NULL

\* what the heuristics make of the vehicle name of the row: a name or the
\* sentinel "Unknown owner"
NameOfVehicleName ==
    extractOwnerName(IF TrimmedUnder("Vehicle name") # "" THEN TrimmedUnder("Vehicle name")
                     ELSE TrimmedUnder("Vehicle"))

\* C17 as stated: the owner is the first available of the explicit owner
\* column, the first and last name columns if both are resolved, the prefix
\* of the raw vehicle column, the heuristics on the vehicle name, the
\* sentinel.
OwnerPriority ==
    RowParsed =>
        rowOut[1].record.ownerName =
            IF TrimmedUnder("Owner") # "" THEN TrimmedUnder("Owner")
            ELSE IF Resolved("Owner first name") /\ Resolved("Owner last name") /\ NameOfParts # ""
                THEN NameOfParts
            ELSE IF NameOfVehicleColumns # NULL THEN NameOfVehicleColumns[1]
            ELSE NameOfVehicleName

\* C17, amended: the second source is the first and last name columns, used
\* if at least one of them is resolved and not empty.
OwnerPriorityAnyNamePart ==
    RowParsed =>
        rowOut[1].record.ownerName =
            IF TrimmedUnder("Owner") # "" THEN TrimmedUnder("Owner")
            ELSE IF NameOfParts # "" THEN NameOfParts
            ELSE IF NameOfVehicleColumns # NULL THEN NameOfVehicleColumns[1]
            ELSE NameOfVehicleName

\* a row parsed whose owner column is empty, whose first name column is the
\* only name column of the file, and whose vehicle columns yield another name
OwnerPriorityWitness ==
    /\ RowParsed
    /\ Resolved("Owner") /\ TrimmedUnder("Owner") = ""
    /\ Resolved("Owner first name") /\ ~Resolved("Owner last name")
    /\ NameOfParts = "Ana"
    /\ NameOfVehicleColumns = Some("Bob")
    /\ NameOfVehicleName = "Al"
    /\ rowOut[1].record.ownerName = "Ana"


(***************************************************************************)
(* Properties of the cancellation parsing (SpecCancel).                    *)
(***************************************************************************)

\* the cell of the row under the header, lower-cased; empty when the file
\* has no such column
LowerUnder(header) == IF header \in DOMAIN rowIn THEN ToLowerCase(rowIn[header]) ELSE ""

FlagSaysTrue == Resolved("Cancelled") /\ LowerUnder("Cancelled") \in {"true", "yes", "1"}

FlagSaysFalse == Resolved("Cancelled") /\ LowerUnder("Cancelled") \in {"false", "no", "0"}

StatusSaysCancelled == Includes(LowerUnder("Trip status"), "cancel")

\* isCancelled of the row with another status text
CancelledWithStatus(status) ==
    parseRow([rowIn EXCEPT !["Trip status"] = status], 2, ColumnMaps[rowFields]).record.isCancelled

\* C18 as stated: with a cancelled-flag column resolved, isCancelled is
\* decided by that column, true for true/yes/1 and false for false/no/0 in
\* any case, whatever the status text; the status heuristic is used only
\* when no cancelled-flag column is resolved.
CancellationParsing ==
    RowParsed =>
        IF Resolved("Cancelled")
            THEN /\ FlagSaysTrue => rowOut[1].record.isCancelled
                 /\ FlagSaysFalse => ~rowOut[1].record.isCancelled
                 /\ Resolved("Trip status") =>
                        \A status \in StatusCells :
                            CancelledWithStatus(status) = rowOut[1].record.isCancelled
            ELSE rowOut[1].record.isCancelled = StatusSaysCancelled

\* C18, amended: with a cancelled-flag column resolved whose cell is one of
\* true/yes/1 or false/no/0 in any case, isCancelled is decided by that cell,
\* whatever the status text; in every other case, also that of a resolved
\* flag column with another or an empty cell, isCancelled is whether the
\* status contains "cancel" in any case.
CancellationParsingWithFallback ==
    RowParsed =>
        rowOut[1].record.isCancelled =
            IF FlagSaysTrue THEN TRUE
            ELSE IF FlagSaysFalse THEN FALSE
            ELSE StatusSaysCancelled

\* a row parsed whose flag cell says no while its status says cancelled
CancellationParsingWitness ==
    /\ RowParsed
    /\ FlagSaysFalse /\ LowerUnder("Cancelled") # rowIn["Cancelled"]
    /\ StatusSaysCancelled
    /\ ~rowOut[1].record.isCancelled


(***************************************************************************)
(* Properties of the row numbers and the warnings (Spec).                  *)
(***************************************************************************)

\* C19: the rowNumber of every record and the 'Row N' of every rejection
\* warning is the line of the file the data row stands on, the header row
\* being line 1, also in a file with empty lines; the row numbers of the
\* records are distinct.
RowNumbering ==
    columnMap # NULL =>
        /\ \A i \in 1..Len(parsedData) :
              IF RowRejectable(parsedData[i], columnMap[1])
                  THEN \E k \in 1..Len(warnings) : warnings[k] \in RejectionWarnings(sourceLines[i])
                  ELSE \E k \in 1..Len(recordList) :
                          /\ recordList[k].rowNumber = sourceLines[i]
                          /\ recordList[k].vehicleName = RowVehicleName(parsedData[i], columnMap[1])
        /\ \A k, l \in 1..Len(recordList) :
              k # l => recordList[k].rowNumber # recordList[l].rowNumber


\* the N of a warning 'Row N: ...'
WarningRow(warning) == DigitsValue(SubSeq(warning, 5, IndexOfChar(warning, ":") - 1))

\* C20: the warnings parseTuroCsv returns are in ascending order of their
\* row numbers, the rejection warnings and the could-not-determine-owner
\* warnings taken together.
WarningOrder ==
    pc = "done" =>
        \A k, l \in 1..Len(warnings) :
            k < l => WarningRow(warnings[k]) <= WarningRow(warnings[l])


\* C24: the backfill returns as many records as it was given, in the same
\* order; a record with a known owner is returned as it is, and of a record
\* with the sentinel nothing but ownerName can differ.
BackfillFrame ==
    Backfilled =>
        /\ Len(batchOut[1]) = Len(batchIn)
        /\ \A i \in 1..Len(batchIn) :
              IF batchIn[i].ownerName # "Unknown owner"
                  THEN batchOut[1][i] = batchIn[i]
                  ELSE [batchOut[1][i] EXCEPT !.ownerName = "Unknown owner"] = batchIn[i]

\* a backfill that rewrote the owner of a row standing between two rows with
\* known owners
BackfillFrameWitness ==
    /\ Backfilled
    /\ Len(batchIn) >= 3
    /\ \E i \in 2..(Len(batchIn) - 1) :
          /\ batchIn[i].ownerName = "Unknown owner"
          /\ batchOut[1][i].ownerName # "Unknown owner"
          /\ batchIn[i - 1].ownerName # "Unknown owner"
          /\ batchIn[i + 1].ownerName # "Unknown owner"


\* the owners with the most rows among the rows of a set
TopOwners(rows) ==
    {batchIn[j].ownerName : j \in {m \in rows :
        \A k \in rows : Cardinality(RowsOfOwner(rows, batchIn[m].ownerName))
                            >= Cardinality(RowsOfOwner(rows, batchIn[k].ownerName))}}

\* of the rows of a set that name one of the owners, the first
FirstRowOf(rows, owners) == SetMin({j \in rows : batchIn[j].ownerName \in owners})

SignSymmetry ==
    RowParsed =>
        \A i \in 1..Len(rowOut[1].steps) :
            LET step     == rowOut[1].steps[i]
                negated  == lrPartCents(0 - step.amountCents, step.item)
            IN  /\ negated = 0 - step.lrPartCents
                /\ ownerPartCents(0 - step.amountCents, negated) = 0 - step.ownerPartCents


(***************************************************************************)
(* Further properties of buildDashboardData (SpecAgg).                     *)
(***************************************************************************)

RECURSIVE SumSeq(_)
SumSeq(values) == IF Len(values) = 0 THEN 0 ELSE values[1] + SumSeq(Tail(values))

\* C27: the vehicle rows and the month buckets partition the totals: the
\* trips of the vehicle breakdown add up to totalTrips, its lrShare,
\* ownerShare and totalEarnings to those of the metrics, the lrShare and
\* ownerShare of the monthly split to those of the metrics, and the monthly
\* revenue to grossRevenue.
RollupsPartitionTotals ==
    Aggregated =>
        LET data      == aggOut[1]
            breakdown == data.vehicleBreakdown
            split     == data.monthlySplit
        IN  /\ SumSeq([j \in 1..Len(breakdown) |-> breakdown[j].trips]) = data.metrics.totalTrips
            /\ SumSeq([j \in 1..Len(breakdown) |-> breakdown[j].lrShare]) = data.metrics.lrShare
            /\ SumSeq([j \in 1..Len(breakdown) |-> breakdown[j].ownerShare]) = data.metrics.ownerShare
            /\ SumSeq([j \in 1..Len(breakdown) |-> breakdown[j].totalEarnings])
                  = data.metrics.totalEarnings
            /\ SumSeq([j \in 1..Len(split) |-> split[j].lrShare]) = data.metrics.lrShare
            /\ SumSeq([j \in 1..Len(split) |-> split[j].ownerShare]) = data.metrics.ownerShare
            /\ SumSeq([j \in 1..Len(data.monthlyRevenue) |-> data.monthlyRevenue[j].revenue])
                  = data.metrics.grossRevenue
            /\ data.metrics.totalTrips = Len(aggIn)

\* the dashboard of three records of two vehicles ending in two months, one
\* vehicle having two of the records
RollupsPartitionTotalsWitness ==
    /\ Aggregated
    /\ Len(aggIn) = 3
    /\ Len(aggOut[1].vehicleBreakdown) = 2
    /\ Len(aggOut[1].monthlySplit) = 2
    /\ \E j \in 1..2 : aggOut[1].vehicleBreakdown[j].trips = 2
    /\ aggOut[1].metrics.lrShare > 0


\* the input holds records of one vehicle only, all ending in one month
OneVehicleOneMonth ==
    /\ Len(aggIn) > 0
    /\ Cardinality({aggIn[i].vehicleName : i \in 1..Len(aggIn)}) = 1
    /\ Cardinality({monthKey(aggIn[i].tripEnd) : i \in 1..Len(aggIn)}) = 1

\* C23: the utilizationPct of a vehiclePerformance row is computed as the
\* monthly series computes it, from the booked days of the vehicle's trips
\* over the days of the month, capped at 100: for a record list of a single
\* vehicle whose trips all end in one month, the utilizationPct of the first
\* vehiclePerformance row equals that of the first monthlyUtilization entry.
PerVehicleUtilization ==
    (Aggregated /\ OneVehicleOneMonth) =>
        /\ aggOut[1].vehiclePerformance[1].utilizationPct
              = aggOut[1].monthlyUtilization[1].utilizationPct
        /\ aggOut[1].vehiclePerformance[1].utilizationPct
              = monthUtilizationPct(
                    SumAt([i \in 1..Len(aggIn) |-> dayDiff(aggIn[i].tripStart, aggIn[i].tripEnd)],
                          1..Len(aggIn)),
                    daysInMonth(monthKey(aggIn[1].tripEnd)[1], monthKey(aggIn[1].tripEnd)[2] - 1))


(***************************************************************************)
(* buildColumnMap on its own (SpecHeader): the header row is any           *)
(* arrangement of up to MaxColumns distinct headers, several of which      *)
(* match different aliases of one field.                                   *)
(***************************************************************************)

MaxColumns == 4

\* headers of the aliases 1, 2 and 3 of tripStart, 1 and 2 of tripEnd, and
\* 1 and 5 of grossRevenue
AliasHeaderPool ==
    {"Trip Start", "Start_Date", "PICKUP-DATE", "Trip end", "End date", "Trip price", "GROSS"}

\* the header rows of distinct headers of the pool, in every column order
AliasHeaderRows ==
    UNION { {row \in [1..n -> AliasHeaderPool] : \A i, j \in 1..n : row[i] = row[j] => i = j}
              : n \in 1..MaxColumns }

InitHeader ==
    /\ pc = "idle"
    /\ metaFields \in AliasHeaderRows
    /\ columnMap = NULL
    /\ parsedData = <<>>
    /\ recordList = <<>>
    /\ warnings = <<>>
    /\ error = NULL
    /\ policyArg = NULL
    /\ dashboard = NULL
    /\ linesRead = 1
    /\ sourceLines = <<>>
    /\ feeSettings = NoOverrides
    /\ PureIdle
    /\ AppIdle
    /\ SaveIdle

\* buildColumnMap(parsed.meta.fields): the map, or the error it throws
ApplyBuildColumnMap ==
    /\ columnMap = NULL
    /\ error = NULL
    /\ IF buildColumnMap(metaFields).threw
          THEN /\ error' = Some(buildColumnMap(metaFields).message)
               /\ columnMap' = NULL
          ELSE /\ error' = NULL
               /\ columnMap' = Some(buildColumnMap(metaFields))
    /\ UNCHANGED <<pc, metaFields, parsedData, recordList, warnings, feeSettings, policyArg,
                   dashboard, linesRead, sourceLines>>
    /\ UNCHANGED <<pureVars, appVars, saveVars>>

NextHeader == ApplyBuildColumnMap

SpecHeader == InitHeader /\ [][NextHeader]_vars

CanonicalFields == DOMAIN aliases

RequiredFields == {"tripStart", "tripEnd", "grossRevenue"}

\* the header bound to the field in the resolved map, if any
BoundHeader(field) ==
    IF field \in RequiredFields THEN Some(columnMap[1][field]) ELSE columnMap[1][field]

\* the positions, in the field's alias list, of the aliases that a header of
\* the file normalises to
MatchedAliases(field) ==
    {k \in 1..Len(aliases[field]) :
        \E i \in 1..Len(metaFields) : normalizeHeader(metaFields[i]) = aliases[field][k]}

\* C22: a header matches an alias when its lower-cased text without the
\* non-alphanumeric characters equals the alias, and the header bound to a
\* canonical field is one matching the earliest-declared alias of the field
\* that any header of the file matches, wherever the columns stand in the
\* file; a field none of whose aliases is matched is bound to no header.
HeaderAliasResolution ==
    columnMap # NULL =>
        \A field \in CanonicalFields :
            IF MatchedAliases(field) = {}
                THEN BoundHeader(field) = NULL
                ELSE /\ BoundHeader(field) # NULL
                     /\ \E i \in 1..Len(metaFields) : metaFields[i] = BoundHeader(field)[1]
                     /\ normalizeHeader(BoundHeader(field)[1])
                            = aliases[field][SetMin(MatchedAliases(field))]

\* a resolved file whose first column matches the third alias of tripStart
\* and a later column the first alias: the later column is bound
HeaderAliasResolutionWitness ==
    /\ columnMap # NULL
    /\ metaFields[1] = "PICKUP-DATE"
    /\ \E i \in 2..Len(metaFields) : metaFields[i] = "Trip Start"
    /\ columnMap[1].tripStart = "Trip Start"
    /\ columnMap[1].grossRevenue = "GROSS"


(***************************************************************************)
(* handleFile in the application.  Each call runs up to its first await    *)
(* when the file is selected, goes on when parseTuroCsv settles and, if    *)
(* the upload is saved, once more when the save settles.  The selections   *)
(* of the month, owner and vehicle filters, which handleFile resets, are   *)
(* left out.  SpecApp selects files with the Choose CSV button, which is   *)
(* disabled while isLoading; SpecOverlap also drops them on the zone.      *)
(***************************************************************************)

MaxUploads == 3

UploadFiles ==
    { [name |-> "a.csv", fields |-> HFull,
       data |-> << FullRow(DateA, DateB, "Toyota Sienna 2024", "Ehsan's Toyota Sienna 2024",
                           "Completed", "$100.00", "$20.00", "$120.00"),
                   FullRow(DateA, DateA, "Honda Civic 2020", "Honda Civic 2020",
                           "Completed", "$50.00", "n/a", "$50.00") >>],
      [name |-> "b.csv", fields |-> HAlias,
       data |-> << AliasRow(DateA, "tomorrow", "Kai's Jeep", "250"),
                   AliasRow(DateA, DateB, "Kai's Jeep", "250") >>],
      [name |-> "c.csv", fields |-> HTail, data |-> <<>>] }

FileNames == {file.name : file \in UploadFiles}

\* parseTuroCsv of each of the files, computed once
Parsed ==
    [name \in FileNames |-> parseTuroCsv(CHOOSE file \in UploadFiles : file.name = name)]

\* a variant that keeps the records already shown
nextRecordsMerged(current, parsed) == current \o parsed.records

\* setRecords(parsed.records)
nextRecords(current, parsed) == parsed.records

SetCallPc(i, to) == [calls EXCEPT ![i].pc = to]

\* handleFile(file) up to the await of parseTuroCsv
handleFileStart(name) ==
    /\ appError' = NULL
    /\ info' = NULL
    /\ appWarnings' = <<>>
    /\ isLoading' = TRUE
    /\ calls' = Append(calls, [file |-> name, pc |-> "parsing"])
    /\ UNCHANGED <<appRecords, lastFileName>>

\* UploadZone: the Choose CSV button, disabled while isLoading, and the
\* file input it opens
ChooseCsv ==
    /\ ~isLoading
    /\ Len(calls) < MaxUploads
    /\ \E name \in FileNames : handleFileStart(name)

\* UploadZone.handleDrop: a file dropped on the zone, whatever isLoading is
DropCsv ==
    /\ Len(calls) < MaxUploads
    /\ \E name \in FileNames : handleFileStart(name)

\* handleFile from the moment parseTuroCsv settles, with parsed, up to the
\* next await or the end: the catch and the finally blocks included
handleFileParsed(i, parsed) ==
    IF parsed.threw
        THEN /\ appError' = Some(parsed.message)
             /\ isLoading' = FALSE
             /\ calls' = SetCallPc(i, "finished")
             /\ UNCHANGED <<appRecords, appWarnings, lastFileName, info>>
        ELSE /\ appRecords' = nextRecords(appRecords, parsed)
             /\ appWarnings' = parsed.warnings
             /\ lastFileName' = Some(calls[i].file)
             /\ \E saveToSupabase, isSignedIn \in BOOLEAN :
                   IF ~saveToSupabase
                       THEN /\ info' = Some("CSV processed locally only.")
                            /\ isLoading' = FALSE
                            /\ calls' = SetCallPc(i, "finished")
                            /\ UNCHANGED appError
                   ELSE IF ~isSignedIn
                       THEN /\ appError' = Some("Sign in to save uploads to Supabase.")
                            /\ isLoading' = FALSE
                            /\ calls' = SetCallPc(i, "finished")
                            /\ UNCHANGED info
                   ELSE /\ calls' = SetCallPc(i, "saving")
                        /\ UNCHANGED <<appError, info, isLoading>>

\* the parseTuroCsv of one of the calls settles
ParseSettled ==
    \E i \in 1..Len(calls) :
        /\ calls[i].pc = "parsing"
        /\ handleFileParsed(i, Parsed[calls[i].file])

\* handleFile from the moment computeFileSha256Hex and saveUploadToSupabase
\* have settled: the message of the result or of the error, then finally
SaveSettled ==
    \E i \in 1..Len(calls) :
        /\ calls[i].pc = "saving"
        /\ \E outcome \in {"saved", "duplicate", "threw"} :
              IF outcome = "threw"
                  THEN /\ appError' = Some("Failed to insert upload row.")
                       /\ UNCHANGED info
                  ELSE /\ info' = Some(IF outcome = "duplicate"
                                           THEN "This exact file is already stored in Supabase."
                                           ELSE "Saved to Supabase successfully.")
                       /\ UNCHANGED appError
        /\ isLoading' = FALSE
        /\ calls' = SetCallPc(i, "finished")
        /\ UNCHANGED <<appRecords, appWarnings, lastFileName>>

NextApp ==
    \/ ChooseCsv /\ UNCHANGED <<parseVars, pureVars, saveVars>>
    \/ ParseSettled /\ UNCHANGED <<parseVars, pureVars, saveVars>>
    \/ SaveSettled /\ UNCHANGED <<parseVars, pureVars, saveVars>>

SpecApp == Init /\ [][NextApp]_vars

NextOverlap ==
    \/ DropCsv /\ UNCHANGED <<parseVars, pureVars, saveVars>>
    \/ ChooseCsv /\ UNCHANGED <<parseVars, pureVars, saveVars>>
    \/ ParseSettled /\ UNCHANGED <<parseVars, pureVars, saveVars>>
    \/ SaveSettled /\ UNCHANGED <<parseVars, pureVars, saveVars>>

SpecOverlap == Init /\ [][NextOverlap]_vars

\* the calls whose file has been parsed without an error
UploadsParsed == {i \in 1..Len(calls) : calls[i].pc # "parsing" /\ ~Parsed[calls[i].file].threw}

AllFinished == \A i \in 1..Len(calls) : calls[i].pc = "finished"

\* C30: when a file is selected while an earlier handleFile call is still
\* parsing or saving, then once all the calls have finished the records, the
\* warnings and the latest-file name are those of the file selected last
\* (if that file parsed to the end with its warnings still shown, i.e. it
\* was an upload that succeeded), and isLoading is never false while a
\* handleFile call is still in progress.
OverlappingUploads ==
    /\ (\E i \in 1..Len(calls) : calls[i].pc # "finished") => isLoading
    /\ (Len(calls) >= 2 /\ AllFinished /\ ~Parsed[calls[Len(calls)].file].threw) =>
          /\ appRecords = Parsed[calls[Len(calls)].file].records
          /\ appWarnings = Parsed[calls[Len(calls)].file].warnings
          /\ lastFileName = Some(calls[Len(calls)].file)


(***************************************************************************)
(* saveUploadToSupabase for one signed-in user.  A call runs up to the     *)
(* request it awaits; the tables change when the request is served, and    *)
(* the call goes on from there, so the requests of two calls interleave.   *)
(* The SHA-256 digests (the file hash behind the upload id and the trip    *)
(* fingerprint) are taken to have no collisions: the digest of a text is   *)
(* modelled by the text.  The requests are taken to succeed, the insert    *)
(* into uploads apart, which fails with 23505 on a duplicate id.           *)
(***************************************************************************)

MaxSaves == 2
MaxSaveRows == 2

\* value.trim().toLowerCase().replace(/\s+/g, ' ')
RECURSIVE CollapseWhitespace(_)
CollapseWhitespace(s) ==
    IF Len(s) = 0 THEN ""
    ELSE IF Ch(s, 1) \in Whitespace
        THEN IF Len(s) > 1 /\ Ch(s, 2) \in Whitespace
                 THEN CollapseWhitespace(Tail(s))
                 ELSE " " \o CollapseWhitespace(Tail(s))
        ELSE Ch(s, 1) \o CollapseWhitespace(Tail(s))

normalizeFingerprintValue(value) == CollapseWhitespace(ToLowerCase(Trim(value)))

isCompletedStatus(status) == status # NULL /\ ToLowerCase(Trim(status[1])) = "completed"

\* the text the digest is taken of
buildTripFingerprint(row) ==
    LET identityGuest == IF row.guestName = "Unknown guest" THEN row.ownerName ELSE row.guestName
    IN  Join(<<normalizeFingerprintValue(row.vehicleName),
               normalizeFingerprintValue(identityGuest),
               row.tripStart, row.tripEnd>>, "|")

\* the trips of the files saved; tripStart and tripEnd are held as their
\* toISOString() texts
SaveTrip(vehicleName, guestName, ownerName, status) ==
    [vehicleName |-> vehicleName, guestName |-> guestName, ownerName |-> ownerName,
     tripStart |-> "2025-01-30T10:00:00.000Z", tripEnd |-> "2025-02-02T11:00:00.000Z",
     status |-> status]

SaveTripPool ==
    { SaveTrip("Kia Rio", "Al", "Bo", Some("Completed")),
      SaveTrip("kia  rio ", "AL", "Bo", Some("Cancelled")),
      SaveTrip("Kia Rio", "Unknown guest", "Al", NULL),
      SaveTrip("VW Golf", "Al", "Bo", Some(" completed")) }

\* the records of a file: its trips, numbered from row 2 on as parseTuroCsv
\* numbers them
RecordsOf(fileTrips) ==
    [i \in 1..Len(fileTrips) |->
        [rowNumber |-> i + 1, vehicleName |-> fileTrips[i].vehicleName,
         guestName |-> fileTrips[i].guestName, ownerName |-> fileTrips[i].ownerName,
         tripStart |-> fileTrips[i].tripStart, tripEnd |-> fileTrips[i].tripEnd,
         status |-> fileTrips[i].status]]

\* the files: their content stands for fileHashHex, and so for uploadId
SaveFiles == UNION {[1..n -> SaveTripPool] : n \in 1..MaxSaveRows}

rowsWithFingerprints(records) ==
    [i \in 1..Len(records) |->
        [tripFingerprint |-> buildTripFingerprint(records[i]), row |-> records[i]]]

\* the fingerprints among the statuses read whose status is completed
completedFingerprints(existingStatuses) ==
    {existing.trip_fingerprint : existing \in {e \in existingStatuses : isCompletedStatus(e.status)}}

upsertRows(records, existingStatuses) ==
    SelectSeq(rowsWithFingerprints(records),
              LAMBDA entry : entry.tripFingerprint \notin completedFingerprints(existingStatuses))

\* the loop over upsertRows: the Map dedupedByFingerprint as the sequence of
\* its values in the order of insertion of their keys
RECURSIVE dedupedByFingerprint(_, _)
dedupedByFingerprint(deduped, rows) ==
    IF Len(rows) = 0 THEN deduped
    ELSE LET entry == rows[1]
             at    == {k \in 1..Len(deduped) : deduped[k].tripFingerprint = entry.tripFingerprint}
         IN  IF at = {}
                 THEN dedupedByFingerprint(Append(deduped, entry), Tail(rows))
             ELSE LET k == CHOOSE k \in at : TRUE
                      current == deduped[k]
                  IN  IF isCompletedStatus(entry.row.status) /\ ~isCompletedStatus(current.row.status)
                          THEN dedupedByFingerprint([deduped EXCEPT ![k] = entry], Tail(rows))
                      ELSE IF entry.row.rowNumber > current.row.rowNumber
                          THEN dedupedByFingerprint([deduped EXCEPT ![k] = entry], Tail(rows))
                      ELSE dedupedByFingerprint(deduped, Tail(rows))

\* the rows sent to the trips table; the columns that no step reads back
\* (the dates, the names, the amounts) are left out
tripsPayload(uploadId, dedupedRows) ==
    { [upload_id |-> uploadId, row_number |-> dedupedRows[k].row.rowNumber,
       status |-> dedupedRows[k].row.status,
       trip_fingerprint |-> dedupedRows[k].tripFingerprint] : k \in 1..Len(dedupedRows) }

SetSavePc(i, to) == [saves EXCEPT ![i].pc = to]

\* saveUploadToSupabase(fileName, records, dashboard, fileHashHex) up to the
\* insert into uploads
StartSave ==
    /\ Len(saves) < MaxSaves
    /\ \E file \in SaveFiles :
          saves' = Append(saves, [uploadId |-> file, records |-> RecordsOf(file),
                                  pc |-> "insertUpload", duplicateUpload |-> FALSE,
                                  payload |-> {}])
    /\ UNCHANGED <<uploadsTable, tripsTable>>

\* the insert into uploads is served; the call computes the fingerprints and
\* asks for the statuses stored for them
InsertUpload ==
    \E i \in 1..Len(saves) :
        /\ saves[i].pc = "insertUpload"
        /\ uploadsTable' = uploadsTable \cup {saves[i].uploadId}
        /\ saves' = [saves EXCEPT ![i].pc = "selectStatuses",
                                  ![i].duplicateUpload = (saves[i].uploadId \in uploadsTable)]
        /\ UNCHANGED tripsTable

\* the select of the statuses is served; the call drops the rows whose
\* fingerprint is stored as completed, returns if none is left, and
\* otherwise dedupes the rest and sends the upsert
SelectStatuses ==
    \E i \in 1..Len(saves) :
        /\ saves[i].pc = "selectStatuses"
        /\ LET fingerprints == {buildTripFingerprint(saves[i].records[k]) :
                                    k \in 1..Len(saves[i].records)}
               existingStatuses ==
                   {[trip_fingerprint |-> stored.trip_fingerprint, status |-> stored.status] :
                        stored \in {t \in tripsTable : t.trip_fingerprint \in fingerprints}}
               rows == upsertRows(saves[i].records, existingStatuses)
           IN  IF Len(rows) = 0
                   THEN saves' = SetSavePc(i, "returned")
                   ELSE saves' = [saves EXCEPT
                                     ![i].pc = "upsertTrips",
                                     ![i].payload =
                                         tripsPayload(saves[i].uploadId,
                                                      dedupedByFingerprint(<<>>, rows))]
        /\ UNCHANGED <<uploadsTable, tripsTable>>

\* the upsert on (user_id, trip_fingerprint) is served: a row of the payload
\* replaces the stored row of its fingerprint; the call returns
UpsertTrips ==
    \E i \in 1..Len(saves) :
        /\ saves[i].pc = "upsertTrips"
        /\ tripsTable' =
              {stored \in tripsTable :
                  \A sent \in saves[i].payload : sent.trip_fingerprint # stored.trip_fingerprint}
                  \cup saves[i].payload
        /\ saves' = SetSavePc(i, "returned")
        /\ UNCHANGED uploadsTable

NextSave ==
    \/ StartSave /\ UNCHANGED <<parseVars, pureVars, appVars>>
    \/ InsertUpload /\ UNCHANGED <<parseVars, pureVars, appVars>>
    \/ SelectStatuses /\ UNCHANGED <<parseVars, pureVars, appVars>>
    \/ UpsertTrips /\ UNCHANGED <<parseVars, pureVars, appVars>>

SpecSave == Init /\ [][NextSave]_vars

\* the rows of the call's file that have the fingerprint
RowsSharing(i, fingerprint) ==
    {k \in 1..Len(saves[i].records) : buildTripFingerprint(saves[i].records[k]) = fingerprint}

\* C28: when several rows of one upload share a trip fingerprint and one of
\* them has the status completed, the row the call keeps for the fingerprint
\* and sends to the trips table has the status completed, whatever the order
\* and the row numbers of the duplicates.
DedupePrefersCompleted ==
    \A i \in 1..Len(saves) :
        \A sent \in saves[i].payload :
            LET sharing == RowsSharing(i, sent.trip_fingerprint)
            IN  (/\ Cardinality(sharing) >= 2
                 /\ \E k \in sharing : isCompletedStatus(saves[i].records[k].status))
                    => isCompletedStatus(sent.status)

\* C29: a row of the trips table whose status is completed is never changed
\* or replaced by a later step of any save, however the reads and the
\* upserts of the saves interleave, and a save of a file that has been saved
\* before, no other file being saved, leaves the trips table unchanged.
CompletedTripsFrozen ==
    [][/\ \A stored \in tripsTable : isCompletedStatus(stored.status) => stored \in tripsTable'
       /\ (/\ \A i, j \in 1..Len(saves) : saves[i].uploadId = saves[j].uploadId
           /\ \E j \in 1..Len(saves) : saves[j].pc = "returned")
              => tripsTable' = tripsTable]_vars

====
